---- MODULE Spec2Model ----
(***************************************************************************)
(* Market price refresh pipeline of TibiaSearch                            *)
(* (scripts/refresh_market_prices.py): the single-flight coordinator       *)
(* MarketRefresher.refresh_server, the pipeline _refresh_server_impl, the  *)
(* catalog updater update_items_with_prices and the module-level entry     *)
(* point refresh_market_prices.                                            *)
(*                                                                         *)
(* Python dicts are functions whose domain is a set of key strings.        *)
(* Every critical section of flight.lock is one action: nothing blocks     *)
(* inside one except Condition.wait(), which releases the lock.            *)
(***************************************************************************)
EXTENDS Integers, Sequences, FiniteSets, TLC

\* ------------------------------------------------------------------ bounds
NumThreads == 2
\* Calls made in a workload on one server, on each of two servers, and through
\* both entry points.
MaxCalls == 3
MaxCallsEach == 1
MaxEntryCalls == 2
NumIds == 101
MaxScan == 1
NumPatterns == 1

\* --------------------------------------------------------------- constants
BatchSize == 100
NoneTs == -1
EmptyTs == 0
NoId == 0
NoRun == 0

Threads == 1..NumThreads
Servers == {"A", "B"}
Vias == {"method", "function"}
\* Refresher 0 is the MarketRefresher the threads share; refresher t is the one
\* the latest refresh_market_prices call of thread t constructed.
SharedRefresher == 0
Refreshers == 0..NumThreads
RemoteValues == {NoneTs, EmptyTs} \cup (1..MaxScan)
Patterns == 1..NumPatterns

\* ------------------------------------------------------------------- dicts
EmptyDict == [k \in {} |-> 0]
NONE == [none |-> TRUE]
OrEmpty(d) == IF d = NONE THEN EmptyDict ELSE d
Merge(a, b) == [k \in DOMAIN a \cup DOMAIN b |-> IF k \in DOMAIN b THEN b[k] ELSE a[k]]
SetDefault(d, k, v) == IF k \in DOMAIN d THEN d ELSE Merge(d, [x \in {k} |-> v])
Without(d, ks) == [k \in DOMAIN d \ ks |-> d[k]]
Truthy(ts) == ts # NoneTs /\ ts # EmptyTs

VARIABLES pc, call, run, joined, seen, flights, frame, ret,
          metaFile, creatureFile, deliveryFile, idsCacheFile,
          nreq, wrote, budget, fetch, throttle, pure, logger

vars == <<pc, call, run, joined, seen, flights, frame, ret,
          metaFile, creatureFile, deliveryFile, idsCacheFile,
          nreq, wrote, budget, fetch, throttle, pure, logger>>

\* ---------------------------------------------------------------- catalogs
\* An item is [name, id, gold]; names are the normalized names, an integer per
\* distinct name; id NoId is an item without an integer "id" key.
NameToId == [n \in 1..NumIds |-> n]
UnknownName == NumIds + 1

CreatureItems0 == [i \in 1..(NumIds - 1) |-> [name |-> i, id |-> i, gold |-> 7]]
DeliveryItems0 ==
    << [name |-> NumIds, id |-> NumIds, gold |-> 7],
       [name |-> 2, id |-> NoId, gold |-> 7],
       [name |-> UnknownName, id |-> NoId, gold |-> 7] >>

Meta0 == [market_last_update_by_server |-> [s \in Servers |-> NoneTs],
          market_last_refresh_at_by_server |-> [s \in Servers |-> NoRun]]

\* ----------------------------------------------------------------- flights
Flight0 == [in_progress |-> FALSE, waiters |-> 0, last_result |-> NONE, cur |-> NoRun]
Flights0 == [s \in Servers |-> Flight0]

Frame0 == [meta |-> Meta0, remote |-> NoneTs, creature |-> << >>, delivery |-> << >>,
           item_ids |-> << >>, batch_start |-> 0, market_values |-> EmptyDict,
           processed_ids |-> {}, failed_batches |-> 0, total_batches |-> 0,
           result |-> NONE, raised |-> FALSE]

Ret0 == [kind |-> "none", val |-> EmptyDict]

\* The position of a thread inside _fetch_market_batch and what it holds there:
\* phase "loop" is the batch loop of _refresh_server_impl outside a fetch.
\* throttle is Throttle._last_request_at of the shared refresher, kept as the
\* time since the last mark() in tenths of a second, capped at the delay.
NoMark == -1
Fetch0 == [phase |-> "loop", attempt |-> 0, wait |-> 0, failure |-> "none",
           retry_after |-> NoMark, slept |-> 0, requested |-> << >>]
Nreq0 == [world |-> 0, market |-> 0]

\* The calls the environment still makes, per server.
Workloads ==
    { [s \in Servers |-> IF s = "A" THEN MaxCalls ELSE 0],
      [s \in Servers |-> MaxCallsEach] }
EntryWorkloads == { [s \in Servers |-> IF s = "A" THEN MaxEntryCalls ELSE 0] }

\* pure holds the arguments and the value of a call of one of the module's
\* functions made outside a refresh; logger is the log callback the
\* refreshers are constructed with.
Pure0 == [fn |-> "none", arg |-> << >>, out |-> << >>]
Loggers == {"none", "returns", "raises"}

InitProgram(workloads, creature, delivery, meta) ==
    /\ pc = [t \in Threads |-> "idle"]
    /\ call = [t \in Threads |-> [server |-> "A", via |-> "method", rid |-> SharedRefresher]]
    /\ run = [t \in Threads |-> NoRun]
    /\ joined = [t \in Threads |-> NoRun]
    /\ seen = [t \in Threads |-> NONE]
    /\ flights = [r \in Refreshers |-> Flights0]
    /\ frame = [t \in Threads |-> Frame0]
    /\ ret = [t \in Threads |-> Ret0]
    /\ metaFile = meta
    /\ creatureFile = creature
    /\ deliveryFile = delivery
    /\ idsCacheFile = FALSE
    /\ nreq = [t \in Threads |-> Nreq0]
    /\ wrote = [t \in Threads |-> {}]
    /\ budget \in workloads
    /\ fetch = [t \in Threads |-> Fetch0]
    /\ throttle = NoMark

InitWith(workloads, creature, delivery, meta) ==
    /\ InitProgram(workloads, creature, delivery, meta)
    /\ pure = Pure0
    /\ logger = "none"

Init == InitWith(Workloads, CreatureItems0, DeliveryItems0, Meta0)
EntryInit == InitWith(EntryWorkloads, CreatureItems0, DeliveryItems0, Meta0)

\* ------------------------------------------------------------- run identity
\* start = time.monotonic() and iso_timestamp() give every run values of its
\* own; a run is identified by a token that no live value refers to, and its
\* duration_seconds and its iso_timestamp() are modelled by that token.
DurOf(d) == IF "duration_seconds" \in DOMAIN d THEN {d.duration_seconds} ELSE {}
StampsOf(m) == {m.market_last_refresh_at_by_server[s] : s \in Servers}
InUse ==
    UNION { {run[t], joined[t]} \cup DurOf(seen[t]) \cup DurOf(ret[t].val)
            \cup StampsOf(frame[t].meta) : t \in Threads }
    \cup UNION { {flights[r][s].cur} \cup DurOf(flights[r][s].last_result)
                 : r \in Refreshers, s \in Servers }
    \cup StampsOf(metaFile)
TokenCap == 6 * NumThreads + 4 * (NumThreads + 1) + 3
FreshToken ==
    CHOOSE k \in 1..TokenCap : k \notin InUse /\ \A j \in 1..(k - 1) : j \in InUse

\* -------------------------------------------------------------- coordinator
FlightOf(t) == flights[call[t].rid][call[t].server]
SameFlight(t, u) == call[t].rid = call[u].rid /\ call[t].server = call[u].server

\* Mutant: the caller claims the flight without testing in_progress.
EnterFlightNoTest(t, s, rid, fl) ==
    /\ flights' = [fl EXCEPT ![rid][s].in_progress = TRUE, ![rid][s].cur = FreshToken]
    /\ pc' = [pc EXCEPT ![t] = "impl"]
    /\ joined' = [joined EXCEPT ![t] = NoRun]
    /\ seen' = [seen EXCEPT ![t] = NONE]
    /\ run' = [run EXCEPT ![t] = FreshToken]

\* Mutant: the caller joins whenever any server's run is in progress.
EnterFlightAnyServer(t, s, rid, fl) ==
    IF \E x \in Servers : fl[rid][x].in_progress
    THEN /\ flights' = [fl EXCEPT ![rid][s].waiters = @ + 1]
         /\ pc' = [pc EXCEPT ![t] = "waiting"]
         /\ joined' = [joined EXCEPT ![t] = fl[rid][s].cur]
         /\ seen' = [seen EXCEPT ![t] = fl[rid][s].last_result]
         /\ run' = [run EXCEPT ![t] = NoRun]
    ELSE /\ flights' = [fl EXCEPT ![rid][s].in_progress = TRUE, ![rid][s].cur = FreshToken]
         /\ pc' = [pc EXCEPT ![t] = "impl"]
         /\ joined' = [joined EXCEPT ![t] = NoRun]
         /\ seen' = [seen EXCEPT ![t] = NONE]
         /\ run' = [run EXCEPT ![t] = FreshToken]

\* Mutant: a joining caller does not count itself.
EnterFlightNoCount(t, s, rid, fl) ==
    IF fl[rid][s].in_progress
    THEN /\ flights' = fl
         /\ pc' = [pc EXCEPT ![t] = "waiting"]
         /\ joined' = [joined EXCEPT ![t] = fl[rid][s].cur]
         /\ seen' = [seen EXCEPT ![t] = fl[rid][s].last_result]
         /\ run' = [run EXCEPT ![t] = NoRun]
    ELSE /\ flights' = [fl EXCEPT ![rid][s].in_progress = TRUE, ![rid][s].cur = FreshToken]
         /\ pc' = [pc EXCEPT ![t] = "impl"]
         /\ joined' = [joined EXCEPT ![t] = NoRun]
         /\ seen' = [seen EXCEPT ![t] = NONE]
         /\ run' = [run EXCEPT ![t] = FreshToken]

\* refresh_server, lines 408-421: the flight is looked up under _flights_lock
\* and, under flight.lock, the caller either joins the run in progress
\* (waiters += 1, then condition.wait()) or claims the flight.
EnterFlight(t, s, rid, fl) ==
    LET f == fl[rid][s] IN
    IF f.in_progress
    THEN /\ flights' = [fl EXCEPT ![rid][s].waiters = @ + 1]
         /\ pc' = [pc EXCEPT ![t] = "waiting"]
         /\ joined' = [joined EXCEPT ![t] = f.cur]
         /\ seen' = [seen EXCEPT ![t] = f.last_result]
         /\ run' = [run EXCEPT ![t] = NoRun]
    ELSE /\ flights' = [fl EXCEPT ![rid][s].in_progress = TRUE, ![rid][s].cur = FreshToken]
         /\ pc' = [pc EXCEPT ![t] = "impl"]
         /\ joined' = [joined EXCEPT ![t] = NoRun]
         /\ seen' = [seen EXCEPT ![t] = NONE]
         /\ run' = [run EXCEPT ![t] = FreshToken]

\* Mutant: a log line interrupts the caller whenever a callback is set.
CallbackRaisesIfSet(lg) == lg # "none"
\* _log, lines 403-405 (and lines 377-378, 56-57): the callback is called if
\* there is one, and an exception it raises goes to the caller of _log.
CallbackRaises(lg) == lg = "raises"

\* One call: MarketRefresher.refresh_server(s) on the shared refresher (via
\* "method"), or refresh_market_prices(s, log), which constructs a
\* MarketRefresher of its own (line 380) and calls its refresh_server. lg is
\* the log callback: refresh_market_prices logs first (line 378) and a
\* joining caller logs before it waits (line 412).
CallBodyWith(t, s, via, lg) ==
    LET rid == IF via = "method" THEN SharedRefresher ELSE t
        fl == IF via = "method" THEN flights ELSE [flights EXCEPT ![t] = Flights0]
    IN /\ pc[t] \in {"idle", "done"}
       /\ call' = [call EXCEPT ![t] = [server |-> s, via |-> via, rid |-> rid]]
       /\ IF CallbackRaises(lg) /\ (via = "function" \/ fl[rid][s].in_progress)
          THEN /\ pc' = [pc EXCEPT ![t] = "done"]
               /\ ret' = [ret EXCEPT ![t] = [kind |-> "raised", val |-> EmptyDict]]
               /\ joined' = [joined EXCEPT ![t] = NoRun]
               /\ seen' = [seen EXCEPT ![t] = NONE]
               /\ run' = [run EXCEPT ![t] = NoRun]
               /\ UNCHANGED flights
          ELSE /\ EnterFlight(t, s, rid, fl)
               /\ ret' = [ret EXCEPT ![t] = Ret0]
       /\ frame' = [frame EXCEPT ![t] = Frame0]
       /\ nreq' = [nreq EXCEPT ![t] = Nreq0]
       /\ wrote' = [wrote EXCEPT ![t] = {}]
       /\ UNCHANGED <<metaFile, creatureFile, deliveryFile, idsCacheFile, fetch, throttle, pure, logger>>

CallBody(t, s, via) == CallBodyWith(t, s, via, logger)

CallWith(t, s, via, lg) ==
    /\ budget[s] > 0
    /\ budget' = [budget EXCEPT ![s] = @ - 1]
    /\ CallBodyWith(t, s, via, lg)

Call(t, s, via) == CallWith(t, s, via, logger)

\* Mutant: the copy handed to a waiter is not tagged.
JoinedResultNoStatus(f, s) == SetDefault(OrEmpty(f.last_result), "server", s)

\* refresh_server, lines 414-420: a notified waiter re-acquires flight.lock
\* inside condition.wait(), re-tests in_progress and either waits again or
\* returns a copy of last_result.
JoinedResult(f, s) ==
    SetDefault(SetDefault(OrEmpty(f.last_result), "server", s), "status", "joined")

Wake(t) ==
    /\ pc[t] = "woken"
    /\ LET f == FlightOf(t) IN
       IF f.in_progress
       THEN /\ pc' = [pc EXCEPT ![t] = "waiting"]
            /\ UNCHANGED <<flights, ret>>
       ELSE /\ flights' = [flights EXCEPT ![call[t].rid][call[t].server].waiters = @ - 1]
            /\ ret' = [ret EXCEPT ![t] = [kind |-> "ok", val |-> JoinedResult(f, call[t].server)]]
            /\ pc' = [pc EXCEPT ![t] = "done"]
    /\ UNCHANGED <<call, run, joined, seen, frame, metaFile, creatureFile, deliveryFile,
                   idsCacheFile, nreq, wrote, budget, fetch, throttle, pure, logger>>

\* Mutants: last_result without the run's result; without its duration.
StoredResultNoResult(s, duration, result) == [server |-> s, duration_seconds |-> duration]
StoredResultNoDuration(s, duration, result) == Merge([server |-> s], OrEmpty(result))

\* Mutant: nobody is notified.
AfterNotifyNone(t) == [pc EXCEPT ![t] = "done"]

\* condition.notify_all() (line 437) and the caller's return: the program
\* counters after the finally clause of t.
AfterNotifyAll(t) ==
    [u \in Threads |->
        IF u = t THEN "done"
        ELSE IF pc[u] = "waiting" /\ SameFlight(u, t) THEN "woken"
        ELSE pc[u]]

\* refresh_server, lines 428-437: the finally clause of the triggering caller.
StoredResult(s, duration, result) ==
    Merge([server |-> s, duration_seconds |-> duration], OrEmpty(result))

Finally(t) ==
    /\ pc[t] = "finally"
    /\ flights' = [flights EXCEPT ![call[t].rid][call[t].server] =
                     [@ EXCEPT !.in_progress = FALSE,
                               !.last_result = StoredResult(call[t].server, run[t], frame[t].result)]]
    /\ pc' = AfterNotifyAll(t)
    /\ ret' = [ret EXCEPT ![t] = IF frame[t].raised
                                 THEN [kind |-> "raised", val |-> EmptyDict]
                                 ELSE [kind |-> "ok", val |-> frame[t].result]]
    /\ frame' = [frame EXCEPT ![t] = Frame0]
    /\ UNCHANGED <<call, run, joined, seen, metaFile, creatureFile, deliveryFile,
                   idsCacheFile, nreq, wrote, budget, fetch, throttle, pure, logger>>

\* ----------------------------------------------------------------- catalog
Min(a, b) == IF a < b THEN a ELSE b
Max(a, b) == IF a < b THEN b ELSE a

\* Mutant: the mapping is not consulted for an item without an id.
ResolveIdNoMapping(item, name_to_id) == item.id

\* The id an item ends with: its own integer id, else name_to_id.get(name).
ResolveId(item, name_to_id) ==
    IF item.id # NoId THEN item.id
    ELSE IF item.name \in DOMAIN name_to_id THEN name_to_id[item.name]
    ELSE NoId

\* apply_item_ids: attaches the resolved ids to the items (in place) and
\* returns the resolved ids.
ApplyItemIds(items, name_to_id) ==
    [items |-> [i \in DOMAIN items |-> [items[i] EXCEPT !.id = ResolveId(items[i], name_to_id)]],
     ids |-> {ResolveId(items[i], name_to_id) : i \in DOMAIN items} \ {NoId}]

\* sorted(set(item_ids))
SortedIds(ids) == SelectSeq([i \in 1..(NumIds + 1) |-> i], LAMBDA i : i \in ids)

\* Mutant: the loop does not skip the items outside processed_ids.
UpdateItemNoSkip(item, name_to_id, market_values, processed_ids) ==
    LET id == ResolveId(item, name_to_id)
        withId == [item EXCEPT !.id = id]
    IN IF id = NoId
       THEN [item |-> [withId EXCEPT !.gold = 0], kind |-> "missing_zeroed"]
       ELSE IF id \notin DOMAIN market_values[1] \/ market_values[1][id] = -1
            THEN [item |-> [withId EXCEPT !.gold = 0], kind |-> "no_price"]
       ELSE [item |-> [withId EXCEPT !.gold = market_values[1][id]], kind |-> "priced"]

\* Mutant: an unsold offer (-1) is stored like a price.
UpdateItemUnsoldKept(item, name_to_id, market_values, processed_ids) ==
    LET id == ResolveId(item, name_to_id)
        withId == [item EXCEPT !.id = id]
    IN IF id = NoId
       THEN IF market_values = << >>
            THEN [item |-> withId, kind |-> "missing"]
            ELSE [item |-> [withId EXCEPT !.gold = 0], kind |-> "missing_zeroed"]
       ELSE IF processed_ids # << >> /\ id \notin processed_ids[1]
            THEN [item |-> withId, kind |-> "skipped"]
       ELSE IF market_values = << >>
            THEN [item |-> withId, kind |-> "skipped"]
       ELSE IF id \notin DOMAIN market_values[1]
            THEN [item |-> [withId EXCEPT !.gold = 0], kind |-> "no_price"]
       ELSE [item |-> [withId EXCEPT !.gold = market_values[1][id]], kind |-> "priced"]

\* update_items_with_prices, one iteration of its loop. An optional argument
\* is << >> for None and <<v>> for the value v. kind: what the iteration
\* counted.
UpdateItem(item, name_to_id, market_values, processed_ids) ==
    LET id == ResolveId(item, name_to_id)
        withId == [item EXCEPT !.id = id]
    IN IF id = NoId
       THEN IF market_values = << >>
            THEN [item |-> withId, kind |-> "missing"]
            ELSE [item |-> [withId EXCEPT !.gold = 0], kind |-> "missing_zeroed"]
       ELSE IF processed_ids # << >> /\ id \notin processed_ids[1]
            THEN [item |-> withId, kind |-> "skipped"]
       ELSE IF market_values = << >>
            THEN [item |-> withId, kind |-> "skipped"]
       ELSE IF id \notin DOMAIN market_values[1] \/ market_values[1][id] = -1
            THEN [item |-> [withId EXCEPT !.gold = 0], kind |-> "no_price"]
       ELSE [item |-> [withId EXCEPT !.gold = market_values[1][id]], kind |-> "priced"]

\* Mutant: the items without an id are counted as updated too.
UpdateItemsWithPricesCountsAll(items, name_to_id, market_values, processed_ids) ==
    LET u == [i \in DOMAIN items |->
                UpdateItem(items[i], name_to_id, market_values, processed_ids)]
        n(kinds) == Cardinality({i \in DOMAIN items : u[i].kind \in kinds})
    IN [items |-> [i \in DOMAIN items |-> u[i].item],
        updated |-> n({"no_price", "priced", "missing_zeroed"}),
        without_price |-> n({"no_price", "missing_zeroed"}),
        missing_ids |-> n({"missing", "missing_zeroed"})]

UpdateItemsWithPrices(items, name_to_id, market_values, processed_ids) ==
    LET u == [i \in DOMAIN items |->
                UpdateItem(items[i], name_to_id, market_values, processed_ids)]
        n(kinds) == Cardinality({i \in DOMAIN items : u[i].kind \in kinds})
    IN [items |-> [i \in DOMAIN items |-> u[i].item],
        updated |-> n({"no_price", "priced"}),
        without_price |-> n({"no_price", "missing_zeroed"}),
        missing_ids |-> n({"missing", "missing_zeroed"})]

\* ---------------------------------------------------------------- upstream
\* A market_values response for a batch: a dict id -> sell_offer, where
\* NoOffer is an entry without "sell_offer". The pattern is the upstream's
\* choice; some ids have no entry, some are unsold (-1), some lack the key.
NoOffer == -2
Payload(batch, pat) ==
    [i \in {j \in batch : j % 4 # 0} |->
        IF i % 4 = 1 THEN 10 * pat + (i % 3)
        ELSE IF i % 4 = 2 THEN -1
        ELSE NoOffer]

\* A sell_offer as the JSON decoder gives it: None (no key, or null), an int,
\* a bool, a float (its value in tenths; nan and inf apart), a string of
\* digits (its number), any other string, or a list.
NoneOffer == [type |-> "none", value |-> 0]
IntOffer(v) == [type |-> "int", value |-> v]
\* int(x) for a float: towards zero
Trunc(tenths) == IF tenths >= 0 THEN tenths \div 10 ELSE -((-tenths) \div 10)
\* int(sell_offer): the value, or the exception it raises
IntOf(offer) ==
    CASE offer.type \in {"int", "bool", "digits"} -> [raises |-> "none", value |-> offer.value]
      [] offer.type = "float" -> [raises |-> "none", value |-> Trunc(offer.value)]
      [] offer.type \in {"text", "nan"} -> [raises |-> "ValueError", value |-> 0]
      [] offer.type = "inf" -> [raises |-> "OverflowError", value |-> 0]
      [] OTHER -> [raises |-> "TypeError", value |-> 0]
\* lines 658-667, for one entry: the price stored for it, or the exception
\* that leaves the loop
ParseSellOffer(offer) ==
    IF offer.type = "none" THEN [raises |-> "none", price |-> 0]
    ELSE LET sell_value == IntOf(offer) IN
         IF sell_value.raises \in {"TypeError", "ValueError"} THEN [raises |-> "none", price |-> 0]
         ELSE IF sell_value.raises # "none" THEN [raises |-> sell_value.raises, price |-> 0]
         ELSE [raises |-> "none",
               price |-> IF sell_value.value = -1 THEN 0 ELSE Max(0, sell_value.value)]

\* _parse_market_values on a response whose offers are ints or absent
ParseMarketValues(payload) ==
    [i \in DOMAIN payload |->
        ParseSellOffer(IF payload[i] = NoOffer THEN NoneOffer ELSE IntOffer(payload[i])).price]

\* ---------------------------------------------------------------- pipeline
Srv(t) == call[t].server

\* Mutant: the metadata is stamped and saved as soon as it is loaded.
LoadMetaStamps(t) ==
    /\ pc[t] = "impl"
    /\ metaFile' = [metaFile EXCEPT !.market_last_refresh_at_by_server[call[t].server] = run[t]]
    /\ wrote' = [wrote EXCEPT ![t] = @ \cup {"meta"}]
    /\ frame' = [frame EXCEPT ![t].meta = metaFile']
    /\ pc' = [pc EXCEPT ![t] = "world"]
    /\ UNCHANGED <<call, run, joined, seen, flights, ret, creatureFile,
                   deliveryFile, idsCacheFile, nreq, budget, fetch, throttle, pure, logger>>

\* _refresh_server_impl, line 440: load_market_refresh_meta.
LoadMeta(t) ==
    /\ pc[t] = "impl"
    /\ frame' = [frame EXCEPT ![t].meta = metaFile]
    /\ pc' = [pc EXCEPT ![t] = "world"]
    /\ UNCHANGED <<call, run, joined, seen, flights, ret, metaFile, creatureFile,
                   deliveryFile, idsCacheFile, nreq, wrote, budget, fetch, throttle, pure, logger>>

SkippedResult(s) ==
    [server |-> s, updated_items |-> 0, items_without_market_price |-> 0,
     items_missing_ids |-> 0, skipped |-> TRUE]

\* Mutant: the gate never recognises an unchanged scan.
ShouldSkipNever(last_update_local, last_update_remote) ==
    Truthy(last_update_remote) /\ last_update_local = last_update_remote /\ FALSE

\* line 445: the freshness gate.
ShouldSkip(last_update_local, last_update_remote) ==
    Truthy(last_update_remote) /\ last_update_local = last_update_remote

\* lines 441-455: the world-data request (urlopen may raise), the extraction
\* of last_update and the freshness gate. _fetch_world_data logs the URL
\* (line 560) before it makes the request.
WorldDataWith(t, lg) ==
    /\ pc[t] = "world"
    /\ nreq' = [nreq EXCEPT ![t].world = IF CallbackRaises(lg) THEN @ ELSE @ + 1]
    /\ \E raises \in BOOLEAN, remote \in RemoteValues :
         IF raises \/ CallbackRaises(lg)
         THEN /\ raises /\ remote = NoneTs
              /\ frame' = [frame EXCEPT ![t].raised = TRUE]
              /\ pc' = [pc EXCEPT ![t] = "finally"]
              /\ UNCHANGED <<metaFile, wrote>>
         ELSE IF ShouldSkip(frame[t].meta.market_last_update_by_server[Srv(t)], remote)
         THEN LET meta == [frame[t].meta EXCEPT
                             !.market_last_refresh_at_by_server[Srv(t)] = run[t]]
              IN /\ metaFile' = meta
                 /\ wrote' = [wrote EXCEPT ![t] = @ \cup {"meta"}]
                 /\ frame' = [frame EXCEPT ![t].meta = meta, ![t].remote = remote,
                                           ![t].result = SkippedResult(Srv(t))]
                 /\ pc' = [pc EXCEPT ![t] = "finally"]
         ELSE /\ frame' = [frame EXCEPT ![t].remote = remote]
              /\ pc' = [pc EXCEPT ![t] = "load"]
              /\ UNCHANGED <<metaFile, wrote>>
    /\ UNCHANGED <<call, run, joined, seen, flights, ret, creatureFile, deliveryFile,
                   idsCacheFile, budget, fetch, throttle, pure, logger>>

\* Mutant: the failed id resolution is reported like a skipped refresh.
ItemIdsErrorAsSkipped(s) ==
    [server |-> s, updated_items |-> 0, items_without_market_price |-> 0,
     items_missing_ids |-> 0, skipped |-> TRUE]
\* line 474: the result of a run whose id resolution failed.
ItemIdsError(s) == [server |-> s, error |-> "item_ids"]

WorldData(t) == WorldDataWith(t, logger)

\* lines 457-487: the catalogs are loaded, the name -> id mapping comes from
\* the fresh cache or from the reference document (fetch_item_ids, which may
\* raise RuntimeError), and the ids to fetch are collected.
LoadCatalogs(t) ==
    /\ pc[t] = "load"
    /\ \E ids \in {"cached", "parsed", "failed"} :
         /\ ids = "cached" => idsCacheFile
         /\ IF ids = "failed"
            THEN /\ frame' = [frame EXCEPT ![t].creature = creatureFile,
                                           ![t].delivery = deliveryFile,
                                           ![t].result = ItemIdsError(Srv(t))]
                 /\ pc' = [pc EXCEPT ![t] = "finally"]
                 /\ UNCHANGED <<idsCacheFile, wrote>>
            ELSE LET c == ApplyItemIds(creatureFile, NameToId)
                     d == ApplyItemIds(deliveryFile, NameToId)
                 IN /\ frame' = [frame EXCEPT ![t].creature = c.items,
                                              ![t].delivery = d.items,
                                              ![t].item_ids = SortedIds(c.ids \cup d.ids)]
                    /\ pc' = [pc EXCEPT ![t] = "batch"]
                    /\ idsCacheFile' = (idsCacheFile \/ ids = "parsed")
                    /\ wrote' = [wrote EXCEPT ![t] =
                                   IF ids = "parsed" THEN @ \cup {"ids_cache"} ELSE @]
    /\ UNCHANGED <<call, run, joined, seen, flights, ret, metaFile, creatureFile,
                   deliveryFile, nreq, budget, fetch, throttle, pure, logger>>

\* Mutant: a batch runs one id into the next.
BatchAtOverlap(item_ids, batch_start) ==
    SubSeq(item_ids, batch_start + 1, Min(batch_start + BatchSize + 1, Len(item_ids)))
BatchAt(item_ids, batch_start) ==
    SubSeq(item_ids, batch_start + 1, Min(batch_start + BatchSize, Len(item_ids)))
Range(seq) == {seq[i] : i \in DOMAIN seq}

\* lines 489-503: one iteration of the batch loop; _fetch_market_batch gives
\* the parsed values of the batch, or None when the batch is abandoned.
FetchBatch(t) ==
    /\ pc[t] = "batch"
    /\ frame[t].batch_start < Len(frame[t].item_ids)
    /\ nreq' = [nreq EXCEPT ![t].market = @ + 1]
    /\ LET batch == Range(BatchAt(frame[t].item_ids, frame[t].batch_start)) IN
       \E ok \in BOOLEAN, pat \in Patterns :
         IF ~ok
         THEN /\ pat = 1
              /\ frame' = [frame EXCEPT ![t].total_batches = @ + 1,
                                        ![t].failed_batches = @ + 1,
                                        ![t].batch_start = @ + BatchSize]
         ELSE /\ frame' = [frame EXCEPT ![t].total_batches = @ + 1,
                                        ![t].market_values =
                                            Merge(@, ParseMarketValues(Payload(batch, pat))),
                                        ![t].processed_ids = @ \cup batch,
                                        ![t].batch_start = @ + BatchSize]
    /\ UNCHANGED <<pc, call, run, joined, seen, flights, ret, metaFile, creatureFile,
                   deliveryFile, idsCacheFile, wrote, budget, fetch, throttle, pure, logger>>

\* Mutant: the catalogs are saved after every batch loop.
ProcessedAlways(processed_ids) == TRUE
\* line 509: if processed_ids
Processed(processed_ids) == processed_ids # {}

\* lines 505-555: after the loop the prices are applied and both catalogs
\* saved (only if some batch was processed), the metadata is saved and the
\* summary returned.
Commit(t) ==
    /\ pc[t] = "batch"
    /\ frame[t].batch_start >= Len(frame[t].item_ids)
    /\ LET f == frame[t]
           some == Processed(f.processed_ids)
           c == UpdateItemsWithPrices(f.creature, NameToId, <<f.market_values>>, <<f.processed_ids>>)
           d == UpdateItemsWithPrices(f.delivery, NameToId, <<f.market_values>>, <<f.processed_ids>>)
           meta == [f.meta EXCEPT
                      !.market_last_update_by_server[Srv(t)] =
                          IF Truthy(f.remote) THEN f.remote ELSE @,
                      !.market_last_refresh_at_by_server[Srv(t)] = run[t]]
           summary == [server |-> Srv(t),
                       updated_items |-> IF some THEN c.updated + d.updated ELSE 0,
                       items_without_market_price |->
                           IF some THEN c.without_price + d.without_price ELSE 0,
                       items_missing_ids |-> IF some THEN c.missing_ids + d.missing_ids ELSE 0,
                       batches |-> f.total_batches,
                       failed_batches |-> f.failed_batches]
       IN /\ creatureFile' = IF some THEN c.items ELSE creatureFile
          /\ deliveryFile' = IF some THEN d.items ELSE deliveryFile
          /\ metaFile' = meta
          /\ wrote' = [wrote EXCEPT ![t] =
                         @ \cup {"meta"} \cup (IF some THEN {"creature", "delivery"} ELSE {})]
          /\ frame' = [frame EXCEPT ![t].creature = IF some THEN c.items ELSE @,
                                    ![t].delivery = IF some THEN d.items ELSE @,
                                    ![t].meta = meta,
                                    ![t].result = summary]
    /\ pc' = [pc EXCEPT ![t] = "finally"]
    /\ UNCHANGED <<call, run, joined, seen, flights, ret, idsCacheFile, nreq, budget, fetch, throttle, pure, logger>>

\* ----------------------------------------------------------------- fetcher
\* Times are in tenths of a second. random.uniform(a, b) is one of the two
\* ends of its range.
MaxAttempts == 3
ThrottleDelay == 10
BatchDelay == 10
RetryJitterRange == {1, 3}
BackoffNoRetryAfter == << {20, 50}, {50, 120}, {100, 250} >>
ServerErrorBackoff == {10, 30}

\* The Retry-After header of a 429 response: absent, not a number, or seconds.
AbsentRetryAfter == -1
BadRetryAfter == -2
RetryAfters == {AbsentRetryAfter, BadRetryAfter, 0, 20}
Kinds == {"ok", "429", "5xx", "http_other", "url_error", "bad_json"}

\* Throttle.required_delay, Throttle.wait and time.sleep as they act on the
\* time since the last mark().
RequiredDelay(th) == IF th = NoMark THEN 0 ELSE Max(0, ThrottleDelay - th)
AfterSleep(th, d) == IF th = NoMark THEN NoMark ELSE Min(ThrottleDelay, th + d)
AfterWait(th) == AfterSleep(th, RequiredDelay(th))

\* Mutant: the Retry-After header is ignored.
ComputeRetryAfterNoHeader(retry_after, attempt, u, th) ==
    Max(IF retry_after = AbsentRetryAfter THEN u ELSE 0, RequiredDelay(th))

\* _compute_retry_after: u is what random.uniform returns.
ComputeRetryAfter(retry_after, attempt, u, th) ==
    LET base_delay ==
          IF retry_after = AbsentRetryAfter THEN u
          ELSE IF retry_after = BadRetryAfter THEN 0 + u
          ELSE retry_after + u
    IN Max(base_delay, RequiredDelay(th))

\* Mutant: the schedule is not indexed by the attempt.
RetryDrawsFirstRange(retry_after, attempt) ==
    IF retry_after = AbsentRetryAfter THEN BackoffNoRetryAfter[1] ELSE RetryJitterRange

\* The ranges random.uniform draws from in _compute_retry_after.
RetryDraws(retry_after, attempt) ==
    IF retry_after = AbsentRetryAfter
    THEN BackoffNoRetryAfter[Min(attempt - 1, Len(BackoffNoRetryAfter) - 1) + 1]
    ELSE RetryJitterRange

\* Mutant: a batch is tried once more.
IsFinalAttemptLate(attempt) == attempt = MaxAttempts + 1
\* Mutant: no attempt is the final one.
IsFinalAttemptNever(attempt) == FALSE
\* attempt == max_attempts
IsFinalAttempt(attempt) == attempt = MaxAttempts

\* Mutant: every HTTP error is retried like a server error.
RetryableAll(kind) == kind # "ok"
\* The failures the except clauses retry: 429, 5xx, URLError, JSONDecodeError.
Retryable(kind) == kind \in {"429", "5xx", "url_error", "bad_json"}

\* lines 489-493: the head of one iteration of the batch loop.
BeginBatch(t) ==
    /\ pc[t] = "batch"
    /\ fetch[t].phase = "loop"
    /\ frame[t].batch_start < Len(frame[t].item_ids)
    /\ throttle' = IF frame[t].total_batches > 0 THEN AfterWait(throttle) ELSE throttle
    /\ frame' = [frame EXCEPT ![t].total_batches = @ + 1]
    /\ fetch' = [fetch EXCEPT ![t] =
                   [Fetch0 EXCEPT !.phase = "attempt", !.attempt = 1,
                                  !.requested =
                                      (IF frame[t].batch_start = 0 THEN << >> ELSE fetch[t].requested)
                                      \o << BatchAt(frame[t].item_ids, frame[t].batch_start) >>]]
    /\ UNCHANGED <<pc, call, run, joined, seen, flights, ret, metaFile, creatureFile,
                   deliveryFile, idsCacheFile, nreq, wrote, budget, pure, logger>>

\* Mutant: an abandoned batch is fetched again.
BatchFailedStay(t) ==
    /\ frame' = [frame EXCEPT ![t].failed_batches = @ + 1]
    /\ throttle' = 0
\* The batch is abandoned (lines 495-498) or processed (lines 499-503).
BatchFailed(t) ==
    /\ frame' = [frame EXCEPT ![t].failed_batches = @ + 1,
                              ![t].batch_start = @ + BatchSize]
    /\ throttle' = 0
\* Mutant: the delay is slept after the last batch too.
BatchProcessedAlwaysSleeps(t, values) ==
    LET batch == Range(BatchAt(frame[t].item_ids, frame[t].batch_start)) IN
    /\ frame' = [frame EXCEPT ![t].market_values = Merge(@, values),
                              ![t].processed_ids = @ \cup batch,
                              ![t].batch_start = @ + BatchSize]
    /\ throttle' = AfterSleep(0, BatchDelay)
BatchProcessed(t, values) ==
    LET batch == Range(BatchAt(frame[t].item_ids, frame[t].batch_start)) IN
    /\ frame' = [frame EXCEPT ![t].market_values = Merge(@, values),
                              ![t].processed_ids = @ \cup batch,
                              ![t].batch_start = @ + BatchSize]
    /\ throttle' = IF BatchDelay > 0 /\ frame[t].batch_start + BatchSize < Len(frame[t].item_ids)
                   THEN AfterSleep(0, BatchDelay)
                   ELSE 0

\* _fetch_market_batch, lines 589-626: one attempt. The throttle is waited
\* for, the request is made and marked, and the response decides whether the
\* fetch returns the values, gives the batch up or sleeps before a retry.
SendRequest(t, kinds) ==
    /\ pc[t] = "batch"
    /\ nreq' = [nreq EXCEPT ![t].market = @ + 1]
    /\ \E kind \in kinds, ra \in RetryAfters, pat \in Patterns :
         LET batch == Range(BatchAt(frame[t].item_ids, frame[t].batch_start))
             a == fetch[t].attempt
         IN
         /\ kind # "429" => ra = AbsentRetryAfter
         /\ kind # "ok" => pat = 1
         /\ IF kind = "ok"
            THEN /\ BatchProcessed(t, ParseMarketValues(Payload(batch, pat)))
                 /\ fetch' = [fetch EXCEPT ![t].phase = "loop", ![t].failure = "none",
                                           ![t].retry_after = AbsentRetryAfter]
            ELSE IF ~Retryable(kind) \/ IsFinalAttempt(a)
            THEN /\ BatchFailed(t)
                 /\ fetch' = [fetch EXCEPT ![t].phase = "loop", ![t].failure = kind,
                                           ![t].retry_after = ra]
            ELSE /\ \E u \in (IF kind = "429" THEN RetryDraws(ra, a) ELSE ServerErrorBackoff) :
                      fetch' = [fetch EXCEPT ![t].phase = "backoff", ![t].failure = kind,
                                             ![t].retry_after = ra,
                                             ![t].wait =
                                                 IF kind = "429"
                                                 THEN ComputeRetryAfter(ra, a, u, 0)
                                                 ELSE Max(u, RequiredDelay(0))]
                 /\ throttle' = 0
                 /\ UNCHANGED frame
    /\ UNCHANGED <<pc, call, run, joined, seen, flights, ret, metaFile, creatureFile,
                   deliveryFile, idsCacheFile, wrote, budget, pure, logger>>

Attempt(t) ==
    /\ fetch[t].phase = "attempt"
    /\ SendRequest(t, Kinds)

\* The same attempt as two steps, so that the threads of two servers
\* interleave inside it: Throttle.wait (line 590: required_delay is read and
\* slept, no lock is held), then the request and mark() (lines 592-620),
\* against an upstream that answers 200 or 5xx.
ThrottleKinds == {"ok", "5xx"}
ThrottleWait(t) ==
    /\ pc[t] = "batch"
    /\ fetch[t].phase = "attempt"
    /\ throttle' = AfterWait(throttle)
    /\ fetch' = [fetch EXCEPT ![t].phase = "request"]
    /\ UNCHANGED <<pc, call, run, joined, seen, flights, frame, ret, metaFile, creatureFile,
                   deliveryFile, idsCacheFile, nreq, wrote, budget, pure, logger>>

Request(t) ==
    /\ fetch[t].phase = "request"
    /\ SendRequest(t, ThrottleKinds)

\* time.sleep(wait_seconds) and the next turn of the attempt loop.
Backoff(t) ==
    /\ pc[t] = "batch"
    /\ fetch[t].phase = "backoff"
    /\ throttle' = AfterSleep(throttle, fetch[t].wait)
    /\ fetch' = [fetch EXCEPT ![t].phase = "attempt", ![t].attempt = @ + 1,
                              ![t].slept = fetch[t].wait, ![t].wait = 0]
    /\ UNCHANGED <<pc, call, run, joined, seen, flights, frame, ret, metaFile, creatureFile,
                   deliveryFile, idsCacheFile, nreq, wrote, budget, pure, logger>>

\* -------------------------------------------------------------------- spec
Step(t) ==
    \/ Wake(t)
    \/ LoadMeta(t)
    \/ WorldData(t)
    \/ LoadCatalogs(t)
    \/ FetchBatch(t)
    \/ Commit(t)
    \/ Finally(t)

\* Threads calling refresh_server on one shared MarketRefresher.
Next ==
    \E t \in Threads :
        \/ \E s \in Servers : Call(t, s, "method")
        \/ Step(t)

Spec == Init /\ [][Next]_vars

\* Threads calling through either entry point.
EntryNext ==
    \E t \in Threads :
        \/ \E s \in Servers, via \in Vias : Call(t, s, via)
        \/ Step(t)

EntrySpec == EntryInit /\ [][EntryNext]_vars

\* One thread keeps calling refresh_server("A") on the shared refresher while
\* the others make the calls of the workload; every thread is scheduled
\* fairly: a thread that can take a step of refresh_server eventually takes
\* one. Whether and when a thread calls again is up to it.
FairWorkloads == { [s \in Servers |-> IF s = "A" THEN MaxCallsEach ELSE 0] }
\* The catalogs hold one item.
FairInit == InitWith(FairWorkloads, << >>, SubSeq(DeliveryItems0, 1, 1), Meta0)

Recall(t) ==
    /\ t = NumThreads
    /\ CallBody(t, "A", "method")
    /\ UNCHANGED budget

FairNext ==
    \E t \in Threads :
        \/ Call(t, "A", "method")
        \/ Recall(t)
        \/ Step(t)

FairSpec == FairInit /\ [][FairNext]_vars /\ \A t \in Threads : WF_vars(Step(t))

\* Calls on both servers of the shared refresher, started from the metadata
\* file an earlier refresh of "A" left behind (scan 1 processed); the catalogs
\* hold one item.
MetaWorkloads == { [s \in Servers |-> IF s = "A" THEN MaxEntryCalls ELSE MaxCallsEach] }
MetaAfterRefresh ==
    [Meta0 EXCEPT !.market_last_update_by_server["A"] = 1]
MetaInit == InitWith(MetaWorkloads, << >>, SubSeq(DeliveryItems0, 1, 1), MetaAfterRefresh)
MetaSpec == MetaInit /\ [][Next]_vars

\* One refresh_server("A") call with every attempt of _fetch_market_batch a
\* step of its own, on catalogs whose ids make no batch, one batch (short and
\* full) and two batches.
FetchWorkloads == { [s \in Servers |-> IF s = "A" THEN MaxCallsEach ELSE 0] }
FetchCatalogs ==
    { [creature |-> << >>, delivery |-> << >>],
      [creature |-> << >>, delivery |-> DeliveryItems0],
      [creature |-> SubSeq(CreatureItems0, 1, BatchSize - 1), delivery |-> DeliveryItems0],
      [creature |-> CreatureItems0, delivery |-> DeliveryItems0] }
FetchInit ==
    \E c \in FetchCatalogs : InitWith(FetchWorkloads, c.creature, c.delivery, Meta0)
FetchNext ==
    \E t \in Threads :
        \/ Call(t, "A", "method")
        \/ LoadMeta(t)
        \/ WorldData(t)
        \/ LoadCatalogs(t)
        \/ BeginBatch(t)
        \/ Attempt(t)
        \/ Backoff(t)
        \/ Commit(t)
        \/ Finally(t)
FetchSpec == FetchInit /\ [][FetchNext]_vars

\* The same call when every network call and every sleep returns: a thread
\* inside refresh_server eventually takes its next step.
FetchStep(t) ==
    \/ LoadMeta(t)
    \/ WorldData(t)
    \/ LoadCatalogs(t)
    \/ BeginBatch(t)
    \/ Attempt(t)
    \/ Backoff(t)
    \/ Commit(t)
    \/ Finally(t)
FetchFairSpec == FetchSpec /\ \A t \in Threads : WF_vars(FetchStep(t))

\* One refresh_server call on each server of the shared refresher, the wait
\* for the throttle and the request being separate steps; the catalogs hold
\* one item.
ThrottleWorkloads == { [s \in Servers |-> MaxCallsEach] }
ThrottleInit == InitWith(ThrottleWorkloads, << >>, SubSeq(DeliveryItems0, 1, 1), Meta0)
ThrottleNext ==
    \E t \in Threads :
        \/ \E s \in Servers : Call(t, s, "method")
        \/ LoadMeta(t)
        \/ WorldData(t)
        \/ LoadCatalogs(t)
        \/ BeginBatch(t)
        \/ ThrottleWait(t)
        \/ Request(t)
        \/ Backoff(t)
        \/ Commit(t)
        \/ Finally(t)
ThrottleSpec == ThrottleInit /\ [][ThrottleNext]_vars

\* Calls through both entry points of refreshers constructed with no log
\* callback, with one that returns and with one that raises; the catalogs
\* hold one item.
LogInit ==
    /\ InitProgram(EntryWorkloads, << >>, SubSeq(DeliveryItems0, 1, 1), Meta0)
    /\ pure = Pure0
    /\ logger \in Loggers
LogSpec == LogInit /\ [][EntryNext]_vars

\* ---------------------------------------------------------- function calls
\* update_items_with_prices called on its own, as the tests and the apply
\* step call it: a catalog of MaxItems items, a mapping, the fetched prices
\* (or None) and the processed ids (or None). Name 3 is in no mapping.
MaxItems == 2
PriceIds == 1..2
PriceNameToId == [n \in PriceIds |-> n]
PriceItems ==
    { [name |-> n, id |-> i, gold |-> g] : n \in 1..3, i \in {NoId, 1, 2, 3}, g \in {0, 7} }
PriceDicts == UNION { [S -> {-1, 10}] : S \in SUBSET PriceIds }
Optional(S) == {<< >>} \cup { <<x>> : x \in S }
PriceArgs ==
    [ items : { it \in [1..MaxItems -> PriceItems] :
                  \A i \in 1..MaxItems : it[i].id \in {NoId, it[i].name} },
      name_to_id : {EmptyDict, PriceNameToId},
      market_values : Optional(PriceDicts),
      processed_ids : Optional(SUBSET PriceIds) ]

ApplyPrices ==
    /\ pure.fn = "update_items_with_prices"
    /\ pure.out = << >>
    /\ pure' = [pure EXCEPT !.out =
                  << UpdateItemsWithPrices(pure.arg.items, pure.arg.name_to_id,
                                           pure.arg.market_values, pure.arg.processed_ids) >>]
    /\ UNCHANGED <<pc, call, run, joined, seen, flights, frame, ret, metaFile, creatureFile,
                   deliveryFile, idsCacheFile, nreq, wrote, budget, fetch, throttle, logger>>

\* normalize_name on names of up to MaxLen characters: a letter in both
\* cases, the two kinds of whitespace and the two apostrophes.
MaxLen == 3
Typographic == "U+2019"
Whitespace == {" ", "\t"}
Alphabet == {"a", "A", "'", Typographic} \cup Whitespace
NamesUpTo(n) == UNION { [1..k -> Alphabet] : k \in 0..n }
IsSpace(c) == c \in Whitespace

\* value.strip()
Strip(value) ==
    LET keep == {i \in DOMAIN value : ~IsSpace(value[i])} IN
    IF keep = {} THEN << >>
    ELSE SubSeq(value, CHOOSE i \in keep : \A j \in keep : i <= j,
                       CHOOSE i \in keep : \A j \in keep : j <= i)
\* .replace("\u2019", "'")
ReplaceApostrophe(value) ==
    [i \in DOMAIN value |-> IF value[i] = Typographic THEN "'" ELSE value[i]]
\* re.sub(r"\s+", " ", cleaned): every maximal run of whitespace becomes one
\* space.
CollapseSpaces(cleaned) ==
    LET firsts == SelectSeq([i \in 1..Len(cleaned) |-> i],
                            LAMBDA i : \/ ~IsSpace(cleaned[i])
                                       \/ i = 1
                                       \/ ~IsSpace(cleaned[i - 1]))
    IN [k \in DOMAIN firsts |->
          IF IsSpace(cleaned[firsts[k]]) THEN " " ELSE cleaned[firsts[k]]]
\* cleaned.lower()
Lower(cleaned) == [i \in DOMAIN cleaned |-> IF cleaned[i] = "A" THEN "a" ELSE cleaned[i]]

\* Mutant: runs of whitespace are kept.
NormalizeNameNoCollapse(value) == Lower(ReplaceApostrophe(Strip(value)))
\* normalize_name
NormalizeName(value) == Lower(CollapseSpaces(ReplaceApostrophe(Strip(value))))

\* normalize_name called on two names, and again on the first result.
NormalizeNames ==
    /\ pure.fn = "normalize_name"
    /\ pure.out = << >>
    /\ pure' = [pure EXCEPT !.out =
                  << [first |-> NormalizeName(pure.arg[1]),
                      second |-> NormalizeName(pure.arg[2]),
                      twice |-> NormalizeName(NormalizeName(pure.arg[1]))] >>]
    /\ UNCHANGED <<pc, call, run, joined, seen, flights, frame, ret, metaFile, creatureFile,
                   deliveryFile, idsCacheFile, nreq, wrote, budget, fetch, throttle, logger>>

\* The pairs of names the function is called on: a name and a name that has
\* one character replaced or one character more.
SameButAt(n, m, i) == Len(n) = Len(m) /\ \A j \in DOMAIN n : j # i => n[j] = m[j]
InsertAt(n, i, c) == SubSeq(n, 1, i - 1) \o <<c>> \o SubSeq(n, i, Len(n))
OneEditApart(n, m) ==
    \/ \E i \in DOMAIN n : SameButAt(n, m, i)
    \/ \E i \in 1..(Len(n) + 1), c \in Alphabet : m = InsertAt(n, i, c)
NamePairs ==
    { p \in NamesUpTo(MaxLen) \X NamesUpTo(MaxLen + 1) : OneEditApart(p[1], p[2]) }

\* _parse_market_values on a response with an entry for some of the ids 1 and
\* 2, the sell_offer of any JSON type, followed (when it returns) by the
\* update of a catalog that has both ids.
Offers ==
    {NoneOffer}
    \cup {IntOffer(v) : v \in {-5, -1, 0, 10}}
    \cup {[type |-> "float", value |-> v] : v \in {-15, -5, 127}}
    \cup {[type |-> "digits", value |-> 15], [type |-> "bool", value |-> 1]}
    \cup {[type |-> ty, value |-> 0] : ty \in {"text", "nan", "inf", "list"}}
OfferPayloads == UNION { [S -> Offers] : S \in SUBSET PriceIds }
ParsedCatalog == [i \in PriceIds |-> [name |-> i, id |-> i, gold |-> 7]]
ParseTypedValues(payload) ==
    IF \E i \in DOMAIN payload : ParseSellOffer(payload[i]).raises # "none"
    THEN [raised |-> TRUE, market_values |-> EmptyDict, items |-> ParsedCatalog]
    ELSE LET market_values == [i \in DOMAIN payload |-> ParseSellOffer(payload[i]).price] IN
         [raised |-> FALSE, market_values |-> market_values,
          items |-> UpdateItemsWithPrices(ParsedCatalog, PriceNameToId, <<market_values>>,
                                          <<PriceIds>>).items]

ParseValues ==
    /\ pure.fn = "_parse_market_values"
    /\ pure.out = << >>
    /\ pure' = [pure EXCEPT !.out = << ParseTypedValues(pure.arg) >>]
    /\ UNCHANGED <<pc, call, run, joined, seen, flights, frame, ret, metaFile, creatureFile,
                   deliveryFile, idsCacheFile, nreq, wrote, budget, fetch, throttle, logger>>

\* build_alias_mapping: the alias table (target -> source, the names
\* normalized) and a base mapping over its names and one other name, in which
\* a name has the id of its rank or is absent.
AliasPairs ==
    ("frozen claw (ice horror)" :> "frozen claw")
    @@ ("darklight core" :> "darklight core (object)")
    @@ ("darklight matter" :> "darklight matter (object)")
    @@ ("gore horn" :> "gore horn (item)")
    @@ ("silencer claw" :> "silencer claws")
AliasTargets == DOMAIN AliasPairs
AliasSources == {AliasPairs[target] : target \in AliasTargets}
OtherName == "gold coin"
RankedNames ==
    << "frozen claw (ice horror)", "darklight core", "darklight matter", "gore horn",
       "silencer claw", "frozen claw", "darklight core (object)",
       "darklight matter (object)", "gore horn (item)", "silencer claws", "gold coin" >>
RankOf(name) == CHOOSE i \in DOMAIN RankedNames : RankedNames[i] = name
BaseMappings == { [name \in S |-> RankOf(name)] : S \in SUBSET Range(RankedNames) }

\* Mutant: a target is added whether or not its source resolves.
BuildAliasMappingAlways(mapping) ==
    [target \in AliasTargets |->
        IF AliasPairs[target] \in DOMAIN mapping THEN mapping[AliasPairs[target]] ELSE NoId]
BuildAliasMapping(mapping) ==
    [target \in {x \in AliasTargets : AliasPairs[x] \in DOMAIN mapping} |->
        mapping[AliasPairs[target]]]
\* lines 476-477: name_to_id = {**name_to_id, **aliases}
WithAliases(name_to_id) == Merge(name_to_id, BuildAliasMapping(name_to_id))

ApplyAliases ==
    /\ pure.fn = "build_alias_mapping"
    /\ pure.out = << >>
    /\ pure' = [pure EXCEPT !.out =
                  << [aliases |-> BuildAliasMapping(pure.arg),
                      name_to_id |-> WithAliases(pure.arg)] >>]
    /\ UNCHANGED <<pc, call, run, joined, seen, flights, frame, ret, metaFile, creatureFile,
                   deliveryFile, idsCacheFile, nreq, wrote, budget, fetch, throttle, logger>>

\* The id resolution of a run (lines 463-477) as a function of the cache
\* file, the clock and the reference document. Times are in hours. The cache
\* file is absent or holds fetched_at (missing, unparseable or a time) and
\* items (a mapping, or << >> for something that is not a dict); the document
\* is missing, has no table with the headers item and id, or has a table
\* from which a mapping (maybe an empty one) is extracted.
CacheTtl == 6
Now == 10
NoStamp == -1
BadStamp == -2
DocMappings ==
    { EmptyDict,
      [name \in {OtherName} |-> RankOf(name)],
      [name \in {OtherName, "frozen claw"} |-> RankOf(name)] }
NoCache == [kind |-> "absent", fetched_at |-> NoStamp, items |-> << >>]
Caches ==
    {NoCache}
    \cup [kind : {"file"},
          fetched_at : {NoStamp, BadStamp, Now - CacheTtl - 1, Now - CacheTtl, Now - CacheTtl + 1},
          items : Optional(DocMappings)]
Documents ==
    { [kind |-> "missing", mapping |-> EmptyDict], [kind |-> "no_table", mapping |-> EmptyDict] }
    \cup [kind : {"table"}, mapping : DocMappings]

\* Mutant: a cache exactly CacheTtl old still counts as fresh.
ItemIdsCacheIsFreshInclusive(cache, now) ==
    /\ cache.fetched_at # NoStamp
    /\ cache.fetched_at # BadStamp
    /\ now - cache.fetched_at <= CacheTtl
\* item_ids_cache_is_fresh
ItemIdsCacheIsFresh(cache, now) ==
    /\ cache.fetched_at # NoStamp
    /\ cache.fetched_at # BadStamp
    /\ now - cache.fetched_at < CacheTtl
\* save_item_ids_cache
SavedItemIdsCache(mapping, now) == [kind |-> "file", fetched_at |-> now, items |-> <<mapping>>]
\* fetch_item_ids raises RuntimeError (lines 203-204, 208-210)
FetchItemIdsRaises(doc) == doc.kind \in {"missing", "no_table"}

ResolveIds(cache, now, doc) ==
    IF cache.kind = "file" /\ ItemIdsCacheIsFresh(cache, now) /\ cache.items # << >>
    THEN [error |-> FALSE, parsed |-> FALSE, cache |-> cache,
          name_to_id |-> WithAliases(cache.items[1])]
    ELSE IF FetchItemIdsRaises(doc)
    THEN [error |-> TRUE, parsed |-> TRUE, cache |-> cache, name_to_id |-> EmptyDict]
    ELSE [error |-> FALSE, parsed |-> TRUE, cache |-> SavedItemIdsCache(doc.mapping, now),
          name_to_id |-> WithAliases(doc.mapping)]

ResolveItemIds ==
    /\ pure.fn = "resolve_item_ids"
    /\ pure.out = << >>
    /\ pure' = [pure EXCEPT !.out =
                  << ResolveIds(pure.arg.cache, pure.arg.now, pure.arg.doc) >>]
    /\ UNCHANGED <<pc, call, run, joined, seen, flights, frame, ret, metaFile, creatureFile,
                   deliveryFile, idsCacheFile, nreq, wrote, budget, fetch, throttle, logger>>

PureCalls ==
    { [fn |-> "_parse_market_values", arg |-> p, out |-> << >>] : p \in OfferPayloads }
    \cup
    { [fn |-> "build_alias_mapping", arg |-> m, out |-> << >>] : m \in BaseMappings }
    \cup { [fn |-> "resolve_item_ids", arg |-> [cache |-> c, now |-> Now, doc |-> d],
            out |-> << >>] : c \in Caches, d \in Documents }
    \cup
    { [fn |-> "update_items_with_prices", arg |-> a, out |-> << >>] : a \in PriceArgs }
    \cup { [fn |-> "normalize_name", arg |-> p, out |-> << >>] : p \in NamePairs }
PureInit ==
    /\ InitProgram(FetchWorkloads, << >>, << >>, Meta0)
    /\ logger = "none"
    /\ pure \in PureCalls
PureNext == ApplyPrices \/ NormalizeNames \/ ApplyAliases \/ ResolveItemIds \/ ParseValues
PureSpec == PureInit /\ [][PureNext]_vars

\* ------------------------------------------------------------------ claims
Done(t) == pc[t] = "done"
Joiner(t) == joined[t] # NoRun
Running(t) == pc[t] \in {"impl", "world", "load", "batch", "finally"}
RunnersOf(r, s) == {t \in Threads : Running(t) /\ call[t].rid = r /\ call[t].server = s}
HasKey(d, k) == k \in DOMAIN d
\* The triggering caller u of the run with token k, after it returned or raised.
TriggerOf(u, k) == Done(u) /\ k # NoRun /\ run[u] = k

\* C1: on the shared MarketRefresher, for every server at most one thread is
\* between claiming the flight and the end of its finally clause, and
\* in_progress is true exactly while there is such a thread.
C1_SingleFlight ==
    \A s \in Servers :
        /\ Cardinality(RunnersOf(SharedRefresher, s)) <= 1
        /\ flights[SharedRefresher][s].in_progress <=> RunnersOf(SharedRefresher, s) # {}

C1_Witness ==
    \E t, u \in Threads :
        /\ t # u /\ SameFlight(t, u) /\ call[t].rid = SharedRefresher
        /\ pc[t] = "batch" /\ pc[u] = "waiting"

\* C2: for callers of refresh_market_prices at most one refresh per server
\* runs at a time in the process.
C2_OneRefreshPerServer ==
    \A s \in Servers : Cardinality({t \in Threads : Running(t) /\ call[t].server = s}) <= 1

C4_Original ==
    \A t, u \in Threads :
        (t # u /\ Done(t) /\ Joiner(t) /\ TriggerOf(u, joined[t]) /\ ret[u].kind = "ok")
        => Without(ret[t].val, {"status"}) = ret[u].val

\* C4 amended: the joined caller's result is a copy of the stored last_result
\* plus the joined tag: apart from status and an added duration_seconds it
\* has the keys and values of the result returned to the triggering caller of
\* the run that stored it, and only server when that run raised.
C4_JoinedCopy ==
    \A t \in Threads :
        (Done(t) /\ Joiner(t)) =>
            /\ HasKey(ret[t].val, "duration_seconds")
            /\ \A u \in Threads :
                 (u # t /\ TriggerOf(u, ret[t].val.duration_seconds)) =>
                     Without(ret[t].val, {"status", "duration_seconds"}) =
                         IF ret[u].kind = "ok" THEN ret[u].val ELSE [server |-> Srv(t)]

C4_Witness ==
    \E t, u \in Threads :
        /\ t # u /\ Done(t) /\ Joiner(t) /\ TriggerOf(u, joined[t])
        /\ ret[u].kind = "ok" /\ HasKey(ret[u].val, "batches")
        /\ ret[t].val.duration_seconds = run[u]

\* C5: a caller that found run R in flight executes no part of the pipeline
\* and returns a copy of the result stored by R.
C5_ReturnsJoinedRun ==
    \A t \in Threads :
        (Done(t) /\ Joiner(t)) =>
            /\ nreq[t] = Nreq0
            /\ DurOf(ret[t].val) = {joined[t]}

\* C6: a caller blocked as a waiter eventually returns once the run it joined
\* has completed, also when other threads keep calling.
C6_WaiterReturns ==
    \A t \in Threads : (pc[t] = "woken") ~> (pc[t] = "done")

\* C7: when the pipeline raises, the finally clause puts the flight back to
\* idle, stores server and duration in last_result, wakes every waiter of the
\* flight and the exception reaches the triggering caller; the next call on
\* that flight starts a new run.
RaisedRecord(d) == DOMAIN d = {"server", "duration_seconds"}
C7_RaiseCleansUp ==
    [][ /\ \A t \in Threads :
             (pc[t] = "finally" /\ frame[t].raised /\ pc'[t] = "done") =>
                 LET f == flights'[call[t].rid][call[t].server] IN
                 /\ ~f.in_progress
                 /\ f.last_result = [server |-> Srv(t), duration_seconds |-> run[t]]
                 /\ ret'[t].kind = "raised"
                 /\ \A u \in Threads :
                      (pc[u] = "waiting" /\ SameFlight(u, t)) => pc'[u] = "woken"
        /\ \A u \in Threads :
             LET f == flights[call'[u].rid][call'[u].server] IN
             ( /\ pc[u] \in {"idle", "done"} /\ pc'[u] \in {"impl", "waiting"}
               /\ call'[u].rid = SharedRefresher
               /\ f.last_result # NONE /\ RaisedRecord(f.last_result)
               /\ RunnersOf(SharedRefresher, call'[u].server) = {} )
             => pc'[u] = "impl" ]_vars

C7_Witness ==
    \E t, u \in Threads :
        /\ t # u /\ SameFlight(t, u)
        /\ Done(t) /\ ret[t].kind = "raised"
        /\ pc[u] = "woken" /\ joined[u] = run[t]

\* What a waiter would return from the last_result lr.
JoinedView(lr, s) == SetDefault(SetDefault(OrEmpty(lr), "server", s), "status", "joined")
JoinedFailingRun(t) ==
    /\ Done(t) /\ Joiner(t)
    /\ \E u \in Threads : u # t /\ TriggerOf(u, joined[t]) /\ ret[u].kind = "raised"

\* C8 as stated: when the joined run raised, the waiter returns the
\* last_result that existed before the failing run, tagged as joined.
C8_Original ==
    \A t \in Threads :
        JoinedFailingRun(t) =>
            /\ ret[t].kind = "ok"
            /\ ret[t].val = JoinedView(seen[t], Srv(t))

\* C8 amended: when the joined run raised, the waiter gets no exception; it
\* returns a copy of last_result as the failing run's finally clause
\* overwrote it, server and that run's duration_seconds only, tagged as
\* joined, and never the last_result from before the failing run.
C8_FailedRunRecord ==
    \A t \in Threads :
        JoinedFailingRun(t) =>
            /\ ret[t].kind = "ok"
            /\ HasKey(ret[t].val, "status") /\ ret[t].val.status = "joined"
            /\ ret[t].val # JoinedView(seen[t], Srv(t))
            /\ DurOf(ret[t].val) = {joined[t]} =>
                   ret[t].val = [server |-> Srv(t), duration_seconds |-> joined[t],
                                 status |-> "joined"]

C8_Witness ==
    \E t \in Threads :
        /\ JoinedFailingRun(t)
        /\ seen[t] # NONE
        /\ DurOf(ret[t].val) = {joined[t]}

\* C9: in a run where some batches failed and others succeeded, the saved
\* catalogs keep the loaded gold of every item whose id is in a failed batch,
\* hold the fetched price (0 when the response has none) of every item whose
\* id is in a successful batch, and failed_batches is the number of batches
\* none of whose ids was processed.
CommitStep(t) == pc[t] = "batch" /\ pc'[t] = "finally"
BatchStarts(item_ids) == {k \in 0..(Len(item_ids) - 1) : k % BatchSize = 0}
FailedBatches(item_ids, processed_ids) ==
    {k \in BatchStarts(item_ids) : Range(BatchAt(item_ids, k)) \cap processed_ids = {}}
FetchedPrice(id, market_values) == IF id \in DOMAIN market_values THEN market_values[id] ELSE 0
Isolated(loaded, saved, f) ==
    /\ DOMAIN saved = DOMAIN loaded
    /\ \A i \in DOMAIN loaded :
         LET id == loaded[i].id IN
         /\ (id # NoId /\ id \notin f.processed_ids) => saved[i].gold = loaded[i].gold
         /\ id \in f.processed_ids => saved[i].gold = FetchedPrice(id, f.market_values)
C9_PartialFailure ==
    [][ \A t \in Threads :
          (CommitStep(t) /\ frame[t].failed_batches > 0 /\ frame[t].processed_ids # {}) =>
              /\ Isolated(frame[t].creature, creatureFile', frame[t])
              /\ Isolated(frame[t].delivery, deliveryFile', frame[t])
              /\ frame'[t].result.failed_batches =
                     Cardinality(FailedBatches(frame[t].item_ids, frame[t].processed_ids))
              /\ frame'[t].result.failed_batches >= 1 ]_vars

C9_Witness ==
    \E t \in Threads :
        /\ pc[t] = "finally" /\ frame[t].result # NONE
        /\ HasKey(frame[t].result, "failed_batches")
        /\ frame[t].result.failed_batches = 1
        /\ frame[t].processed_ids # {}
        /\ \E i \in DOMAIN creatureFile : creatureFile[i].gold = 7
        /\ \E i \in DOMAIN deliveryFile : deliveryFile[i].gold > 7

\* C10: when the remote last_update is present and equals the loaded local
\* one, the run ends at the gate with a skipped result and the catalogs
\* untouched; a skipped call made exactly one world-data request and no
\* market-value request, and wrote neither catalog file.
SkippedCall(t) ==
    \/ pc[t] = "finally" /\ frame[t].result # NONE /\ HasKey(frame[t].result, "skipped")
    \/ Done(t) /\ ~Joiner(t) /\ HasKey(ret[t].val, "skipped")
C10_SkippedCall ==
    \A t \in Threads :
        SkippedCall(t) =>
            /\ nreq[t] = [world |-> 1, market |-> 0]
            /\ wrote[t] \cap {"creature", "delivery"} = {}
C10_GateStep ==
    \A t \in Threads :
        ( /\ pc[t] = "world" /\ pc'[t] # "world" /\ ~frame'[t].raised
          /\ Truthy(frame'[t].remote)
          /\ frame[t].meta.market_last_update_by_server[Srv(t)] = frame'[t].remote )
        => /\ pc'[t] = "finally"
           /\ frame'[t].result = SkippedResult(Srv(t))
           /\ frame'[t].result.skipped
           /\ creatureFile' = creatureFile /\ deliveryFile' = deliveryFile
C10_IdempotentSkip == [](C10_SkippedCall) /\ [][C10_GateStep]_vars

C10_Witness ==
    \E t \in Threads :
        /\ Done(t) /\ ~Joiner(t) /\ ret[t].kind = "ok"
        /\ HasKey(ret[t].val, "skipped") /\ ret[t].val.skipped
        /\ nreq[t].world = 1

\* ------------------------------------------------------- claims C11 to C20
LastUpdate(m, s) == m.market_last_update_by_server[s]
LastRefreshAt(m, s) == m.market_last_refresh_at_by_server[s]
GateStepOf(t) == pc[t] = "world" /\ pc'[t] # "world"
SkipStep(t) ==
    /\ GateStepOf(t) /\ pc'[t] = "finally"
    /\ frame'[t].result # NONE /\ HasKey(frame'[t].result, "skipped")

\* C11: the step in which a skipped refresh of S saves the metadata gives S a
\* fresh last_refresh_at and leaves last_update of every server and
\* last_refresh_at of every other server as they were in the metadata file.
C11_SkipTouchesOnlyRefreshAt ==
    [][ \A t \in Threads :
          SkipStep(t) =>
              /\ LastRefreshAt(metaFile', Srv(t)) = run[t]
              /\ \A s \in Servers :
                   /\ LastUpdate(metaFile', s) = LastUpdate(metaFile, s)
                   /\ s # Srv(t) => LastRefreshAt(metaFile', s) = LastRefreshAt(metaFile, s) ]_vars

\* C12: last_update of S in the metadata file changes only in the step in
\* which a run of S that went through the batch phase saves the metadata, and
\* then to the remote timestamp of that run.
C12_LastUpdateOnlyAfterBatches ==
    [][ \A s \in Servers :
          LastUpdate(metaFile', s) # LastUpdate(metaFile, s) =>
              \E t \in Threads :
                  /\ CommitStep(t) /\ Srv(t) = s
                  /\ LastUpdate(metaFile', s) = frame[t].remote ]_vars

\* C13: when the world-data request fails or its response has no last_update
\* string for S, the run goes past the gate to the loading of the catalogs.
C13_UnavailableProceeds ==
    [][ \A t \in Threads :
          (GateStepOf(t) /\ (frame'[t].raised \/ frame'[t].remote = NoneTs))
              => pc'[t] = "load" ]_vars

TransientKinds == {"429", "5xx", "url_error", "bad_json"}
AttemptStep(t) == fetch[t].phase = "attempt" /\ fetch'[t].phase # "attempt"
Ceil(n, d) == (n + d - 1) \div d
MinOf(S) == CHOOSE x \in S : \A y \in S : x <= y
RECURSIVE Concat(_)
Concat(seqs) == IF seqs = << >> THEN << >> ELSE Head(seqs) \o Concat(Tail(seqs))

\* C14: a batch is attempted at most 3 times; a transient failure before the
\* third attempt is retried; when the third attempt fails the batch is given up
\* (failed_batches grows by one), the run stays in the batch loop at the next
\* batch, and at the end of the loop every batch of the id list was begun.
C14_ThreeAttempts ==
    /\ [](\A t \in Threads : fetch[t].attempt <= MaxAttempts)
    /\ [][ \A t \in Threads :
             /\ (AttemptStep(t) /\ fetch'[t].failure \in TransientKinds) =>
                  IF fetch[t].attempt < MaxAttempts
                  THEN /\ fetch'[t].phase = "backoff"
                       /\ frame'[t] = frame[t]
                  ELSE /\ fetch'[t].phase = "loop"
                       /\ pc'[t] = "batch" /\ ~frame'[t].raised
                       /\ frame'[t].failed_batches = frame[t].failed_batches + 1
                       /\ frame'[t].batch_start = frame[t].batch_start + BatchSize
                       /\ frame'[t].processed_ids = frame[t].processed_ids
             /\ (CommitStep(t) /\ fetch[t].requested # << >>) =>
                  Len(fetch[t].requested) = Cardinality(BatchStarts(frame[t].item_ids)) ]_vars

C14_Witness ==
    \E t \in Threads :
        /\ pc[t] = "batch" /\ fetch[t].phase = "loop"
        /\ fetch[t].attempt = MaxAttempts /\ fetch[t].failure \in TransientKinds
        /\ frame[t].failed_batches = 1
        /\ frame[t].batch_start < Len(frame[t].item_ids)

\* C15: an HTTP error that is neither 429 nor 5xx ends the fetch of the batch
\* in the attempt that got it: no backoff sleep is scheduled, the batch counts
\* as failed and the run stays in the batch loop at the next batch.
C15_NoRetryOnOtherHttp ==
    [][ \A t \in Threads :
          (AttemptStep(t) /\ fetch'[t].failure = "http_other") =>
              /\ fetch'[t].phase = "loop"
              /\ fetch'[t].wait = 0 /\ fetch'[t].attempt = fetch[t].attempt
              /\ nreq'[t].market = nreq[t].market + 1
              /\ pc'[t] = "batch" /\ ~frame'[t].raised
              /\ frame'[t].failed_batches = frame[t].failed_batches + 1
              /\ frame'[t].batch_start = frame[t].batch_start + BatchSize ]_vars

C15_Witness ==
    \E t \in Threads :
        /\ pc[t] = "batch" /\ fetch[t].phase = "loop"
        /\ fetch[t].attempt = 1 /\ fetch[t].failure = "http_other"
        /\ frame[t].failed_batches = 1
        /\ frame[t].batch_start < Len(frame[t].item_ids)

\* C16 as stated: a refresh that went through the batch loop made exactly
\* ceil(N/100) market-value requests for its N ids.
C16_Original ==
    [][ \A t \in Threads :
          CommitStep(t) =>
              nreq[t].market = Ceil(Len(frame[t].item_ids), BatchSize) ]_vars

\* C16 amended: the refresh begins exactly ceil(N/100) batches, which are the
\* consecutive groups of at most 100 ids of the sorted id list without
\* repetition; each batch is requested at least once and at most 3 times.
C16_Chunking ==
    [][ \A t \in Threads :
          CommitStep(t) =>
              LET ids == frame[t].item_ids
                  req == IF ids = << >> THEN << >> ELSE fetch[t].requested
                  n == Ceil(Len(ids), BatchSize)
              IN /\ Len(req) = n /\ frame[t].total_batches = n
                 /\ Concat(req) = ids
                 /\ \A i \in DOMAIN req : Len(req[i]) \in 1..BatchSize
                 /\ \A i \in 1..(Len(req) - 1) : Len(req[i]) = BatchSize
                 /\ \A i, j \in DOMAIN ids : i < j => ids[i] < ids[j]
                 /\ nreq[t].market >= n /\ nreq[t].market <= MaxAttempts * n ]_vars

C16_Witness ==
    \E t \in Threads :
        /\ pc[t] = "finally" /\ frame[t].result # NONE
        /\ Len(frame[t].item_ids) > BatchSize
        /\ HasKey(frame[t].result, "batches") /\ frame[t].result.batches = 2
        /\ nreq[t].market > 2

\* C17: the sleep after a 429 response with a numeric Retry-After r on a
\* non-final attempt lasts at least r plus the smallest jitter, and the next
\* attempt on the batch comes after that sleep.
NumericRetryAfter(f) == f.failure = "429" /\ f.retry_after >= 0
C17_RetryAfterHonoured ==
    [][ \A t \in Threads :
          /\ (fetch[t].phase = "backoff" /\ NumericRetryAfter(fetch[t])) =>
                /\ fetch[t].wait >= fetch[t].retry_after + MinOf(RetryJitterRange)
                /\ nreq'[t] = nreq[t]
                /\ fetch'[t].phase = "attempt" => fetch'[t].slept = fetch[t].wait
          /\ (AttemptStep(t) /\ fetch[t].attempt > 1 /\ NumericRetryAfter(fetch[t])) =>
                fetch[t].slept >= fetch[t].retry_after + MinOf(RetryJitterRange) ]_vars

C17_Witness ==
    \E t \in Threads :
        /\ fetch[t].phase = "attempt" /\ fetch[t].attempt = 2
        /\ fetch[t].failure = "429" /\ fetch[t].retry_after = 20
        /\ fetch[t].slept = 20 + MinOf(RetryJitterRange)

CatalogsWritten(w) == w \cap {"creature", "delivery"}
ErrorStep(t) == pc[t] = "load" /\ pc'[t] = "finally"

\* C18: the catalog files are written, and their contents change, only in the
\* step in which a run with at least one successfully processed batch saves
\* them; the steps that end a skipped run, a run with the item_ids error and
\* the batch loop of a run whose batches all failed write neither file.
C18_SaveOnlyAfterProcessedBatch ==
    [][ /\ \A t \in Threads :
             /\ CatalogsWritten(wrote'[t]) \ CatalogsWritten(wrote[t]) # {} =>
                    /\ CommitStep(t)
                    /\ frame[t].processed_ids # {}
                    /\ frame[t].failed_batches < frame[t].total_batches
             /\ ( \/ SkipStep(t)
                  \/ ErrorStep(t)
                  \/ CommitStep(t) /\ frame[t].failed_batches = frame[t].total_batches )
                => /\ creatureFile' = creatureFile /\ deliveryFile' = deliveryFile
                   /\ CatalogsWritten(wrote'[t]) = {}
        /\ (creatureFile' # creatureFile \/ deliveryFile' # deliveryFile) =>
             \E t \in Threads : CommitStep(t) /\ frame[t].processed_ids # {} ]_vars

C18_Witness ==
    \E t \in Threads :
        /\ pc[t] = "finally" /\ frame[t].result # NONE
        /\ HasKey(frame[t].result, "failed_batches")
        /\ frame[t].result.batches = 2 /\ frame[t].result.failed_batches = 2
        /\ CatalogsWritten(wrote[t]) = {}

\* C19: on the shared refresher at most one run at a time is between loading
\* the catalog files and saving them.
C19_SingleCatalogWriter ==
    Cardinality({t \in Threads : pc[t] = "batch" /\ call[t].rid = SharedRefresher}) <= 1

\* C20: whether a call on server s joins or starts a run depends on the flight
\* of s alone, a joined caller waits on and copies from the flight of its own
\* server, and the record it returns is one stored by a run of that server.
C20_FlightsIndependent ==
    /\ [](\A t \in Threads :
            (Done(t) /\ Joiner(t)) => ret[t].val.server = Srv(t))
    /\ [][ \A t \in Threads :
             /\ (pc[t] \in {"idle", "done"} /\ pc'[t] \in {"impl", "waiting"}) =>
                  LET f == flights[call'[t].rid][call'[t].server] IN
                  /\ pc'[t] = "waiting" <=> f.in_progress
                  /\ pc'[t] = "waiting" => joined'[t] = f.cur
                  /\ \A r \in Refreshers, s \in Servers :
                       (r # call'[t].rid \/ s # call'[t].server) =>
                           flights'[r][s] = flights[r][s]
             /\ (pc[t] = "woken" /\ pc'[t] = "done") =>
                  ret'[t].val = JoinedView(FlightOf(t).last_result, Srv(t)) ]_vars

C20_Witness ==
    \E t, u \in Threads :
        /\ call[t].rid = SharedRefresher /\ call[u].rid = SharedRefresher
        /\ Srv(t) # Srv(u)
        /\ pc[t] = "batch" /\ pc[u] = "batch"
        /\ flights[SharedRefresher][Srv(t)].in_progress
        /\ flights[SharedRefresher][Srv(u)].in_progress

\* ------------------------------------------------------------ claims C21-C30
\* A step in which thread t sends a market-value request.
RequestStep(t) == nreq'[t].market = nreq[t].market + 1

\* C21: a market-value request is sent through the shared MarketRefresher only
\* when no request was sent before or at least the throttle delay has passed
\* since the last one, also when the requests belong to refreshes of
\* different servers.
C21_MinDelayBetweenRequests ==
    [][\A t \in Threads :
          RequestStep(t) => (throttle = NoMark \/ throttle >= ThrottleDelay)]_vars

\* The call of update_items_with_prices has returned; its arguments, its value
\* and the id the description gives an item: its own, else the mapping's.
PriceCall == pure.fn = "update_items_with_prices" /\ pure.out # << >>
IdOf(item, name_to_id) ==
    IF item.id # NoId THEN item.id
    ELSE IF item.name \in DOMAIN name_to_id THEN name_to_id[item.name] ELSE NoId
ArgId(i) == IdOf(pure.arg.items[i], pure.arg.name_to_id)
Applies(i) ==
    /\ ArgId(i) # NoId
    /\ pure.arg.processed_ids = << >> \/ ArgId(i) \in pure.arg.processed_ids[1]
HasPrice(i) ==
    /\ ArgId(i) \in DOMAIN pure.arg.market_values[1]
    /\ pure.arg.market_values[1][ArgId(i)] # -1
Foo == [name |-> 1, id |-> 1, gold |-> 0]
Bar == [name |-> 2, id |-> 2, gold |-> 0]
FooBarPrices == [i \in PriceIds |-> IF i = 1 THEN 10 ELSE -1]
Scenario == pure.arg.items = <<Foo, Bar>> /\ pure.arg.market_values = <<FooBarPrices>>

\* C22: with prices given, every item with a resolved id that is in
\* processed_ids gets the fetched price as gold and is counted in
\* updated_count; when its price is absent or -1 its gold is 0 and it is also
\* counted in no_price_count. Prices {1: 10, 2: -1} on Foo (id 1) and Bar
\* (id 2) give Foo.gold 10, Bar.gold 0, no_price_count 1, updated_count 2.
C22_PricesApplied ==
    (PriceCall /\ pure.arg.market_values # << >>) =>
        LET o == pure.out[1]
            items == DOMAIN pure.arg.items
        IN /\ \A i \in items :
                Applies(i) =>
                    o.items[i].gold =
                        IF HasPrice(i) THEN pure.arg.market_values[1][ArgId(i)] ELSE 0
           /\ o.updated = Cardinality({i \in items : Applies(i)})
           /\ o.without_price =
                  Cardinality({i \in items : Applies(i) /\ ~HasPrice(i)})
                  + Cardinality({i \in items : ArgId(i) = NoId})
           /\ (Scenario /\ Applies(1) /\ Applies(2)) =>
                  /\ o.items[1].gold = 10 /\ o.items[2].gold = 0
                  /\ o.without_price = 1 /\ o.updated = 2

C22_Witness ==
    /\ PriceCall /\ Scenario
    /\ pure.arg.processed_ids = <<PriceIds>>
    /\ pure.out[1].items[1].gold = 10

\* C24: an item without an id that the mapping does not resolve is counted in
\* missing_id_count and not in updated_count; its gold stays as it was when
\* market_values is None and is 0 when prices are applied.
C24_UnresolvedItem ==
    PriceCall =>
        LET o == pure.out[1]
            items == DOMAIN pure.arg.items
            unresolved == {i \in items : ArgId(i) = NoId}
        IN /\ o.missing_ids = Cardinality(unresolved)
           /\ o.updated <= Cardinality(items \ unresolved)
           /\ \A i \in unresolved :
                /\ o.items[i].id = NoId
                /\ o.items[i].gold =
                       IF pure.arg.market_values = << >> THEN pure.arg.items[i].gold ELSE 0

C24_Witness ==
    /\ PriceCall
    /\ pure.arg.market_values # << >>
    /\ ArgId(1) = NoId /\ ArgId(2) # NoId
    /\ pure.arg.name_to_id = PriceNameToId
    /\ pure.arg.items[1].gold = 7 /\ pure.out[1].items[1].gold = 0
    /\ pure.out[1].missing_ids = 1 /\ pure.out[1].updated = 1

\* The items of a catalog with a resolved id in a processed batch whose
\* upstream entry has no sell_offer, an unsold sell_offer (-1) or is missing.
NoMarketPrice(items, processed_ids) ==
    LET upstream == Payload(processed_ids, 1) IN
    { i \in DOMAIN items :
        /\ items[i].id \in processed_ids
        /\ \/ items[i].id \notin DOMAIN upstream
           \/ upstream[items[i].id] \in {-1, NoOffer} }

\* C23: the items_without_market_price of a run's result counts every catalog
\* item with a resolved id in a processed batch whose upstream sell_offer is
\* absent or -1 (it is at least their number).
C23_WithoutPriceCounted ==
    [][ \A t \in Threads :
          (CommitStep(t) /\ frame[t].processed_ids # {}) =>
              frame'[t].result.items_without_market_price >=
                  Cardinality(NoMarketPrice(frame[t].creature, frame[t].processed_ids))
                  + Cardinality(NoMarketPrice(frame[t].delivery, frame[t].processed_ids)) ]_vars

\* C25: when fetch_item_ids raises RuntimeError the run ends with the result
\* {"server": S, "error": "item_ids"} and without an exception, has made no
\* market-value request, and has written neither catalog file nor the
\* metadata file, whose contents the failing step leaves as they are.
C25_IdResolutionFails ==
    /\ [](\A t \in Threads :
            (Done(t) /\ ~Joiner(t) /\ HasKey(ret[t].val, "error")) =>
                /\ ret[t] = [kind |-> "ok", val |-> [server |-> Srv(t), error |-> "item_ids"]]
                /\ nreq[t].market = 0
                /\ wrote[t] \cap {"creature", "delivery", "meta"} = {})
    /\ [][ \A t \in Threads :
             ErrorStep(t) =>
                 /\ frame'[t].result = [server |-> Srv(t), error |-> "item_ids"]
                 /\ ~frame'[t].raised
                 /\ nreq'[t].market = 0
                 /\ UNCHANGED <<creatureFile, deliveryFile, metaFile, wrote>> ]_vars

C25_Witness ==
    \E t \in Threads :
        /\ Done(t) /\ ~Joiner(t)
        /\ ret[t] = [kind |-> "ok", val |-> [server |-> "A", error |-> "item_ids"]]
        /\ nreq[t] = [world |-> 1, market |-> 0]

\* The steps of the program without a log callback.
QuietNext ==
    \E t \in Threads :
        \/ \E s \in Servers, via \in Vias : CallWith(t, s, via, "none")
        \/ Wake(t)
        \/ LoadMeta(t)
        \/ WorldDataWith(t, "none")
        \/ LoadCatalogs(t)
        \/ FetchBatch(t)
        \/ Commit(t)
        \/ Finally(t)

NameCall == pure.fn = "normalize_name" /\ pure.out # << >>
OneCharDiffers(n, m, pair) ==
    \E i \in DOMAIN n : SameButAt(n, m, i) /\ {n[i], m[i]} = pair
WhitespaceAdded(n, m) ==
    \E i \in 1..(Len(n) + 1), c \in Whitespace :
        /\ m = InsertAt(n, i, c)
        /\ \/ i = 1
           \/ i = Len(n) + 1
           \/ IsSpace(n[i - 1])
           \/ IsSpace(n[i])
DifferOnly(n, m) ==
    \/ OneCharDiffers(n, m, {"a", "A"})
    \/ OneCharDiffers(n, m, {"'", Typographic})
    \/ WhitespaceAdded(n, m)
    \/ WhitespaceAdded(m, n)

\* C27: normalize_name(normalize_name(N)) = normalize_name(N), and two names
\* that differ only in the case of a letter, in the kind of an apostrophe or
\* in the amount of leading, trailing or internal whitespace normalize to the
\* same string (names that differ in several places are linked by names that
\* differ in one).
C27_NormalizeName ==
    NameCall =>
        /\ pure.out[1].twice = pure.out[1].first
        /\ DifferOnly(pure.arg[1], pure.arg[2]) => pure.out[1].first = pure.out[1].second

C27_Witness ==
    /\ NameCall
    /\ pure.arg[1] = <<"A", " ", Typographic>>
    /\ pure.arg[2] = <<"A", " ", "\t", Typographic>>
    /\ pure.out[1].first = <<"a", " ", "'">>
    /\ pure.out[1].second = pure.out[1].first

\* The step that begins a batch, and the batches begun earlier in the run.
BeginStep(t) == fetch[t].phase = "loop" /\ fetch'[t].phase = "attempt"
Succeeded(t, batch) == Range(batch) \subseteq frame[t].processed_ids
Abandoned(t, batch) == Range(batch) \cap frame[t].processed_ids = {}

\* C28: a run fetches its batches one after the other in ascending id order:
\* when a batch is begun every earlier batch has succeeded or been abandoned
\* and holds smaller ids, while a batch is being fetched it is the last one
\* begun, and every request is made for that batch, one request per step.
C28_SequentialBatches ==
    /\ [](\A t \in Threads :
            (pc[t] = "batch" /\ fetch[t].phase # "loop") =>
                LET k == Len(fetch[t].requested) IN
                /\ k >= 1 /\ frame[t].total_batches = k
                /\ frame[t].batch_start = BatchSize * (k - 1)
                /\ fetch[t].requested[k] = BatchAt(frame[t].item_ids, frame[t].batch_start)
                /\ Abandoned(t, fetch[t].requested[k]))
    /\ [][ \A t \in Threads :
             /\ BeginStep(t) =>
                  LET req == fetch'[t].requested
                      k == Len(req)
                  IN /\ \A i \in 1..(k - 1) :
                          /\ Succeeded(t, req[i]) \/ Abandoned(t, req[i])
                          /\ req[i][Len(req[i])] < req[i + 1][1]
                     /\ frame[t].failed_batches =
                            Cardinality({i \in 1..(k - 1) : Abandoned(t, req[i])})
                     /\ UNCHANGED nreq
             /\ AttemptStep(t) => nreq'[t].market = nreq[t].market + 1
             /\ nreq'[t].market # nreq[t].market => (AttemptStep(t) \/ pc[t] # "batch") ]_vars

C28_Witness ==
    \E t \in Threads :
        /\ pc[t] = "batch" /\ fetch[t].phase = "attempt" /\ fetch[t].attempt = 2
        /\ Len(fetch[t].requested) = 2
        /\ frame[t].failed_batches = 1
        /\ nreq[t].market = MaxAttempts + 1

\* C29: the step that ends the batch phase of a run of S with a remote
\* timestamp T stores T as last_update of S, also when every batch failed;
\* the stored T is replaced only by a run of S that saw another timestamp;
\* and a refresh of S that sees the stored T at the gate is skipped without a
\* market-value request.
C29_ScanRecordedOnce ==
    [][ /\ \A t \in Threads :
             /\ (CommitStep(t) /\ Truthy(frame[t].remote)) =>
                    LastUpdate(metaFile', Srv(t)) = frame[t].remote
             /\ ( /\ GateStepOf(t) /\ ~frame'[t].raised
                  /\ Truthy(frame'[t].remote)
                  /\ LastUpdate(metaFile, Srv(t)) = frame'[t].remote ) =>
                    (SkipStep(t) /\ nreq'[t].market = 0)
        /\ \A s \in Servers :
             ( /\ Truthy(LastUpdate(metaFile, s))
               /\ LastUpdate(metaFile', s) # LastUpdate(metaFile, s) ) =>
                 \E t \in Threads :
                     /\ CommitStep(t) /\ Srv(t) = s
                     /\ Truthy(frame[t].remote)
                     /\ frame[t].remote # LastUpdate(metaFile, s) ]_vars

\* A run of thread t that saved the metadata and returned, and is the latest
\* run of its server.
SavedRun(t) ==
    /\ Done(t) /\ ~Joiner(t) /\ ret[t].kind = "ok"
    /\ "meta" \in wrote[t]
    /\ flights[SharedRefresher][Srv(t)].cur = run[t]

\* C30: after the refreshes of two different servers have both completed on
\* the shared MarketRefresher, the metadata file holds the last_refresh_at
\* that each of the two runs wrote.
C30_BothEntriesKept ==
    \A t, u \in Threads :
        (SavedRun(t) /\ SavedRun(u) /\ Srv(t) # Srv(u)) =>
            /\ LastRefreshAt(metaFile, Srv(t)) = run[t]
            /\ LastRefreshAt(metaFile, Srv(u)) = run[u]

\* ------------------------------------------------------------ claims C31-C40
\* The run of thread t ended with the exception of its world-data request.
WorldDataRaised(t) ==
    \/ pc[t] = "finally" /\ frame[t].raised
    \/ Done(t) /\ ~Joiner(t) /\ ret[t].kind = "raised"

\* C31: a run whose world-data request raises has made that one request and
\* has written no file, and the step in which the request raises leaves the
\* catalog files, the id-mapping cache and the metadata file as they are.
C31_WorldDataRaises ==
    /\ [](\A t \in Threads :
            WorldDataRaised(t) =>
                /\ wrote[t] = {}
                /\ nreq[t] = [world |-> 1, market |-> 0])
    /\ [][ \A t \in Threads :
             (GateStepOf(t) /\ frame'[t].raised) =>
                 UNCHANGED <<creatureFile, deliveryFile, idsCacheFile, metaFile>> ]_vars

C31_Witness ==
    \E t \in Threads :
        /\ Done(t) /\ ~Joiner(t) /\ ret[t].kind = "raised"
        /\ nreq[t].world = 1
        /\ metaFile = Meta0 /\ creatureFile = CreatureItems0 /\ deliveryFile = DeliveryItems0

\* The id resolution has returned; its cache file was fresh and held a
\* mapping.
ResolveCall == pure.fn = "resolve_item_ids" /\ pure.out # << >>
FreshMapping(cache, now) ==
    /\ cache.kind = "file" /\ cache.items # << >>
    /\ cache.fetched_at >= 0 /\ now - cache.fetched_at < CacheTtl

\* C32: with a cached mapping less than 6 hours old the resolver uses that
\* mapping, does not read the reference document and leaves the cache file as
\* it is; otherwise it reads the document and, when that gives a mapping, the
\* cache file holds this mapping with the current time and the run uses it.
C32_CacheOrDocument ==
    ResolveCall =>
        LET a == pure.arg
            o == pure.out[1]
        IN IF FreshMapping(a.cache, a.now)
           THEN /\ ~o.parsed /\ ~o.error
                /\ o.cache = a.cache
                /\ \A name \in DOMAIN a.cache.items[1] \ AliasTargets :
                       name \in DOMAIN o.name_to_id /\ o.name_to_id[name] = a.cache.items[1][name]
           ELSE /\ o.parsed
                /\ a.doc.kind = "table" =>
                       /\ ~o.error
                       /\ o.cache = [kind |-> "file", fetched_at |-> a.now,
                                     items |-> <<a.doc.mapping>>]
                       /\ \A name \in DOMAIN a.doc.mapping \ AliasTargets :
                              /\ name \in DOMAIN o.name_to_id
                              /\ o.name_to_id[name] = a.doc.mapping[name]

C32_Witness ==
    /\ ResolveCall
    /\ pure.arg.cache.kind = "file" /\ pure.arg.cache.items # << >>
    /\ pure.arg.cache.fetched_at = pure.arg.now - CacheTtl
    /\ pure.arg.doc.kind = "table" /\ pure.arg.doc.mapping # EmptyDict
    /\ pure.out[1].parsed
    /\ pure.out[1].cache.fetched_at = pure.arg.now

\* C33: when the reference document is read and it is missing, has no
\* qualifying table, or gives zero mappings, the resolution ends in the
\* item_ids error, the cache file is left as it was and the run gets no mapping.
C33_EmptyMappingFails ==
    (ResolveCall /\ pure.out[1].parsed
       /\ (FetchItemIdsRaises(pure.arg.doc) \/ pure.arg.doc.mapping = EmptyDict)) =>
        /\ pure.out[1].error
        /\ pure.out[1].cache = pure.arg.cache

\* build_alias_mapping has been applied to a base mapping and merged into it.
AliasCall == pure.fn = "build_alias_mapping" /\ pure.out # << >>

\* C39: after the aliases are merged into the base mapping, an alias target
\* whose source resolves in the base mapping has the id of its source; a
\* target whose source does not resolve is not added (it is in the mapping
\* only if the base mapping had it, with its base id); every name that is not
\* an alias target keeps its id; and no other name appears.
C39_Aliases ==
    AliasCall =>
        LET base == pure.arg
            merged == pure.out[1].name_to_id
        IN /\ \A target \in AliasTargets :
                 IF AliasPairs[target] \in DOMAIN base
                 THEN target \in DOMAIN merged /\ merged[target] = base[AliasPairs[target]]
                 ELSE /\ target \in DOMAIN merged <=> target \in DOMAIN base
                      /\ target \in DOMAIN base => merged[target] = base[target]
           /\ \A name \in DOMAIN base \ AliasTargets : merged[name] = base[name]
           /\ DOMAIN merged \ AliasTargets = DOMAIN base \ AliasTargets
           /\ DOMAIN pure.out[1].aliases \subseteq AliasTargets

\* One source resolves and its target was in the base mapping with another
\* id, a second source does not resolve.
C39_Witness ==
    /\ AliasCall
    /\ "frozen claw" \in DOMAIN pure.arg
    /\ "frozen claw (ice horror)" \in DOMAIN pure.arg
    /\ pure.out[1].name_to_id["frozen claw (ice horror)"] = pure.arg["frozen claw"]
    /\ pure.arg["frozen claw (ice horror)"] # pure.arg["frozen claw"]
    /\ "silencer claws" \notin DOMAIN pure.arg
    /\ "silencer claw" \notin DOMAIN pure.out[1].name_to_id
    /\ OtherName \in DOMAIN pure.arg

\* A response has been parsed.
ParseCall == pure.fn = "_parse_market_values" /\ pure.out # << >>
\* int() gives no integer for this offer
NotAnInteger(offer) == offer.type \in {"text", "nan", "inf", "list"}

\* C34: the parse of a response gives, for every entry, an integer price >= 0,
\* which is 0 when the sell_offer is -1, absent, negative or cannot be
\* converted to an integer; the gold written from these prices is >= 0.
C34_PricesNonNegative ==
    ParseCall =>
        /\ ~pure.out[1].raised
        /\ \A i \in DOMAIN pure.arg :
              /\ i \in DOMAIN pure.out[1].market_values
              /\ pure.out[1].market_values[i] \in Nat
              /\ ( \/ pure.arg[i].type = "none"
                   \/ NotAnInteger(pure.arg[i])
                   \/ pure.arg[i].type = "int" /\ pure.arg[i].value < 0 )
                 => pure.out[1].market_values[i] = 0
        /\ \A i \in PriceIds : pure.out[1].items[i].gold \in Nat

\* The finally clause of refresh_server runs for the triggering caller.
FinallyStep(t) == pc[t] = "finally" /\ pc'[t] = "done"

\* C35: when every network call and every sleep returns, a call of
\* refresh_server returns or raises; a batch is attempted at most 3 times; a
\* run issues at most one world-data request and 3 market requests per batch
\* of its id list; and when the triggering caller leaves, the flight of its
\* server is not in progress.
C35_Terminates ==
    /\ \A t \in Threads : (pc[t] # "idle") ~> Done(t)
    /\ [](\A t \in Threads :
            /\ fetch[t].attempt <= MaxAttempts
            /\ nreq[t].world <= 1
            /\ Running(t) =>
                  /\ nreq[t].market <= MaxAttempts * Ceil(Len(frame[t].item_ids), BatchSize)
                  /\ Len(frame[t].item_ids) = Cardinality(Range(frame[t].item_ids)))
    /\ [][ \A t \in Threads :
             FinallyStep(t) =>
                /\ ~flights'[call[t].rid][call[t].server].in_progress
                /\ nreq'[t] = nreq[t] ]_vars

\* A run that used all 3 attempts on each of its two batches has returned.
C35_Witness ==
    \E t \in Threads :
        /\ Done(t) /\ ~Joiner(t)
        /\ nreq[t].world = 1
        /\ nreq[t].market = MaxAttempts * Cardinality(BatchStarts(SortedIds(1..NumIds)))
        /\ nreq[t].market > MaxAttempts
        /\ ~flights[call[t].rid][call[t].server].in_progress

\* C36: the summary a run returns has batches = ceil(N/100) for the N ids
\* of its id list, 0 <= failed_batches <= batches, updated_items +
\* items_missing_ids at most the number of items of both catalogs,
\* items_without_market_price <= updated_items + items_missing_ids, and the
\* three item counts 0 when every batch failed.
C36_SummaryCounts ==
    [][ \A t \in Threads : CommitStep(t) =>
          LET r == frame'[t].result
              total == Len(frame[t].creature) + Len(frame[t].delivery)
          IN /\ r.batches = Ceil(Len(frame[t].item_ids), BatchSize)
             /\ Len(frame[t].item_ids) = Cardinality(Range(frame[t].item_ids))
             /\ r.failed_batches \in 0..r.batches
             /\ r.updated_items \in Nat /\ r.items_missing_ids \in Nat
             /\ r.items_without_market_price \in Nat
             /\ r.updated_items + r.items_missing_ids <= total
             /\ r.items_without_market_price <= r.updated_items + r.items_missing_ids
             /\ r.failed_batches = r.batches =>
                   /\ r.updated_items = 0 /\ r.items_without_market_price = 0
                   /\ r.items_missing_ids = 0 ]_vars

\* A returned summary of two batches, one of them failed, with an item
\* without id counted.
C36_Witness ==
    \E t \in Threads :
        /\ Done(t) /\ ~Joiner(t) /\ ret[t].kind = "ok"
        /\ HasKey(ret[t].val, "batches")
        /\ ret[t].val.batches = 2 /\ ret[t].val.failed_batches = 1
        /\ ret[t].val.items_missing_ids > 0 /\ ret[t].val.updated_items > 0

\* The fetch of a batch ends: its values are returned or it is given up.
BatchEndStep(t) == AttemptStep(t) /\ fetch'[t].phase = "loop"
LastBatch(t) == frame[t].batch_start + BatchSize >= Len(frame[t].item_ids)

\* C37: when the fetch of a batch that is not the last one succeeds, the
\* run sleeps the inter-batch delay before it goes on (the time since the
\* request is then the delay); after a failed batch and after the last batch
\* it goes on without sleeping (no time has passed since the request).
C37_InterBatchDelay ==
    [][ \A t \in Threads : BatchEndStep(t) =>
          IF fetch'[t].failure = "none" /\ ~LastBatch(t)
          THEN BatchDelay > 0 /\ throttle' = Min(ThrottleDelay, BatchDelay)
          ELSE throttle' = 0 ]_vars

\* The first of two batches was fetched and the delay slept.
C37_Witness ==
    \E t \in Threads :
        /\ pc[t] = "batch" /\ fetch[t].phase = "loop" /\ fetch[t].failure = "none"
        /\ frame[t].batch_start = BatchSize
        /\ frame[t].batch_start < Len(frame[t].item_ids)
        /\ frame[t].processed_ids # {}
        /\ throttle = BatchDelay

MaxOf(S) == CHOOSE x \in S : \A y \in S : x >= y
InRange(w, range) == MinOf(range) <= w /\ w <= MaxOf(range)
\* An attempt ends in a 429 without Retry-After, or in a 5xx.
RateLimitedStep(t) ==
    AttemptStep(t) /\ fetch'[t].failure = "429" /\ fetch'[t].retry_after = AbsentRetryAfter
ServerErrorStep(t) == AttemptStep(t) /\ fetch'[t].failure = "5xx"
\* The wait before the next attempt is drawn from the range, or is the
\* throttle remainder (a full throttle delay right after a request) if larger.
WaitFrom(t, range) ==
    /\ fetch'[t].phase = "backoff"
    /\ \/ InRange(fetch'[t].wait, range)
       \/ fetch'[t].wait = ThrottleDelay /\ ThrottleDelay > MaxOf(range)

\* C38 as stated: for every range k of the schedule, a 429 without
\* Retry-After on attempt k is followed by a wait from the k-th range before
\* attempt k+1; a 5xx by a wait from 1-3 s.
C38_Original ==
    [][ \A t \in Threads :
          /\ \A k \in DOMAIN BackoffNoRetryAfter :
                (RateLimitedStep(t) /\ fetch[t].attempt = k) =>
                    WaitFrom(t, BackoffNoRetryAfter[k])
          /\ (ServerErrorStep(t) /\ fetch[t].attempt < MaxAttempts) =>
                WaitFrom(t, ServerErrorBackoff) ]_vars

\* C38, amended: a 429 without Retry-After on attempt k = 1 or 2 is followed
\* by a wait from the k-th range (2-5 s, 5-12 s), or the throttle remainder if
\* larger, and the wait is slept before attempt k+1; a 5xx on attempt 1 or 2
\* by a wait from 1-3 s; on attempt 3 the batch is given up without a wait,
\* so no retry waits from the third range (10-25 s).
C38_BackoffRanges ==
    [][ \A t \in Threads :
          /\ \A k \in 1..(MaxAttempts - 1) :
                (RateLimitedStep(t) /\ fetch[t].attempt = k) =>
                    WaitFrom(t, BackoffNoRetryAfter[k])
          /\ (ServerErrorStep(t) /\ fetch[t].attempt < MaxAttempts) =>
                WaitFrom(t, ServerErrorBackoff)
          /\ ((RateLimitedStep(t) \/ ServerErrorStep(t)) /\ fetch[t].attempt = MaxAttempts) =>
                fetch'[t].phase = "loop" /\ fetch'[t].wait = 0
          /\ (fetch[t].phase = "backoff" /\ fetch'[t].phase = "attempt") =>
                fetch'[t].slept = fetch[t].wait /\ fetch'[t].attempt <= MaxAttempts ]_vars

\* The second attempt was rate limited and the run waits 12 s.
C38_Witness ==
    \E t \in Threads :
        /\ fetch[t].phase = "backoff" /\ fetch[t].attempt = 2
        /\ fetch[t].failure = "429" /\ fetch[t].retry_after = AbsentRetryAfter
        /\ fetch[t].wait = MaxOf(BackoffNoRetryAfter[2])

\* The callers inside the join branch of refresh_server (between waiters += 1
\* and waiters -= 1) on the flight of server s of refresher rid.
Blocked(rid, s) ==
    {t \in Threads : pc[t] \in {"waiting", "woken"} /\ call[t].rid = rid /\ call[t].server = s}
\* The steps that run under flight.lock in the join branch: the caller
\* joins, or a woken waiter leaves.
JoinStep(t, rid, s) ==
    /\ pc[t] \in {"idle", "done"} /\ pc'[t] = "waiting"
    /\ call'[t].rid = rid /\ call'[t].server = s
LeaveStep(t, rid, s) ==
    /\ pc[t] = "woken" /\ pc'[t] = "done"
    /\ call[t].rid = rid /\ call[t].server = s

\* C40: the waiters of every flight are >= 0 and equal the number of callers
\* in the join branch on that flight (0 when there is none); waiters changes
\* only in the step in which a caller joins (by +1) or a woken waiter leaves
\* (by -1), both under the flight's lock.
C40_Waiters ==
    /\ [](\A rid \in DOMAIN flights : \A s \in Servers :
            /\ flights[rid][s].waiters \in Nat
            /\ flights[rid][s].waiters = Cardinality(Blocked(rid, s)))
    /\ [][ \A rid \in DOMAIN flights : \A s \in Servers :
             flights'[rid][s].waiters # flights[rid][s].waiters =>
                \E t \in Threads :
                   \/ JoinStep(t, rid, s)
                        /\ flights'[rid][s].waiters = flights[rid][s].waiters + 1
                        /\ flights[rid][s].in_progress
                   \/ LeaveStep(t, rid, s)
                        /\ flights'[rid][s].waiters = flights[rid][s].waiters - 1 ]_vars

\* A notified waiter that has not yet left is still counted.
C40_Witness ==
    \E t \in Threads :
        /\ pc[t] = "woken"
        /\ FlightOf(t).waiters = 1
        /\ ~FlightOf(t).in_progress
        /\ Blocked(call[t].rid, call[t].server) = {t}

====
